---- MODULE Spec2Model ----
(***************************************************************************)
(* Model of the smp-resolver-ng resolution pipeline (SMPResolver.resolve   *)
(* and the components it drives: identifier parsing and hashing, the NAPTR *)
(* lookup, the redirect-following HTTP fetch, the ServiceGroup and         *)
(* ServiceMetadata decoders, status classification, certificate parsing    *)
(* and the business-card probe).                                           *)
(*                                                                         *)
(* Text is modelled as a sequence of fragments: every fragment is a TLA+   *)
(* string standing for a run of characters, concatenation of text is \o on *)
(* the sequences, and String.includes is a search for a fragment.  An      *)
(* optional value (undefined / null in the source) is the empty sequence,  *)
(* a present value x is <<x>>.                                             *)
(***************************************************************************)
EXTENDS Integers, Sequences, FiniteSets, TLC

(* ------------------------------ bounds --------------------------------- *)

\* longest participant identifier, in fragments
MaxIdLen == 3
\* most ServiceMetadataReference hrefs in one ServiceGroup
MaxRefs == 1
\* most Process elements in one ServiceMetadata
MaxProcs == 1
\* most Endpoint elements in one Process
MaxEndpoints == 1

(* ------------------------------ helpers -------------------------------- *)

None == <<>>

Some(x) == <<x>>

IsSome(o) == o # <<>>

\* String.includes at fragment granularity
Includes(text, fragment) == \E i \in DOMAIN text : text[i] = fragment

\* all sequences over S of length 0..n
SeqUpTo(S, n) == UNION {[1..k -> S] : k \in 0..n}

\* index of the first occurrence of fragment c in s, 0 when absent
IndexOf(s, c) ==
  IF \E i \in DOMAIN s : s[i] = c
  THEN CHOOSE i \in DOMAIN s : s[i] = c /\ \A j \in 1..(i - 1) : s[j] # c
  ELSE 0

RECURSIVE Split(_, _)
\* String.split(sep): the pieces between the occurrences of sep
Split(s, sep) ==
  LET i == IndexOf(s, sep)
  IN IF i = 0 THEN <<s>>
     ELSE <<SubSeq(s, 1, i - 1)>> \o Split(SubSeq(s, i + 1, Len(s)), sep)

RECURSIVE Join(_, _)
\* Array.join(sep)
Join(parts, sep) ==
  IF Len(parts) = 0 THEN <<>>
  ELSE IF Len(parts) = 1 THEN parts[1]
  ELSE parts[1] \o <<sep>> \o Join(Tail(parts), sep)

(* ------------------------ participant identifiers ---------------------- *)

\* the text the resolver looks for to recognise a ServiceGroup 404
Marker404 == "SMP returned status 404"

\* fragments an identifier is made of: an alphanumeric character, a hyphen
\* and the separator
IdChars == {"a", "-", ":"}

AlNum == {"a"}

ParticipantIds == SeqUpTo(IdChars, MaxIdLen)

\* const [scheme, value] = participantId.split(':')
SplitScheme(participantId) == Split(participantId, ":")[1]

SplitValue(participantId) ==
  LET parts == Split(participantId, ":")
  IN IF Len(parts) >= 2 THEN Some(parts[2]) ELSE None

\* if (!scheme || !value) throw
SplitRejects(participantId) ==
  \/ SplitScheme(participantId) = <<>>
  \/ SplitValue(participantId) = None
  \/ SplitValue(participantId) = Some(<<>>)

\* indexOf(':') based parser: scheme before the first ':', value the rest
parseParticipantId(participantId) ==
  LET colonIndex == IndexOf(participantId, ":")
      scheme == SubSeq(participantId, 1, colonIndex - 1)
      value == SubSeq(participantId, colonIndex + 1, Len(participantId))
  IN IF colonIndex = 0 THEN None
     ELSE IF scheme = <<>> \/ value = <<>> THEN None
     ELSE Some([scheme |-> scheme, value |-> value])

\* /^[a-zA-Z0-9][a-zA-Z0-9]*$/ on the scheme, non-empty value,
\* /^[a-zA-Z0-9]([a-zA-Z0-9-]*[a-zA-Z0-9])?$/ on the value
validateParticipantId(scheme, value) ==
  /\ Len(scheme) >= 1
  /\ \A i \in DOMAIN scheme : scheme[i] \in AlNum
  /\ Len(value) >= 1
  /\ value[1] \in AlNum
  /\ value[Len(value)] \in AlNum
  /\ \A i \in DOMAIN value : value[i] \in AlNum \cup {"-"}

\* the identifier canonicalizer: parse, then validate
CanonicalizerFails(participantId) ==
  LET p == parseParticipantId(participantId)
  IN \/ p = None
     \/ ~validateParticipantId(p[1].scheme, p[1].value)

\* SHA-256 of `scheme:value`, base32, lowercased: kept symbolic, a label
\* that is a function of the canonical text
hashParticipantId(value, scheme) ==
  <<"b32(sha256(">> \o scheme \o <<":">> \o value \o <<"))">>

(* --------------------------------- URLs -------------------------------- *)

\* A URL is text: a scheme fragment, an optional userinfo fragment, a host
\* fragment, then path fragments ("/" is a single slash), an optional query
\* fragment and an optional fragment part.
UrlSchemes == {"https://", "http://", "ftp://", "HTTPS://"}

SmpHost == "smp.example.com"

UrlHosts == {SmpHost, "smp2.example.com"}

UserInfo == "user@"

QueryPart == "?q=1"

HashPart == "#frag"

\* new URL(url): fails unless a scheme and a host can be found
UrlParses(url) ==
  /\ Len(url) >= 2
  /\ url[1] \in UrlSchemes
  /\ \/ url[2] \in UrlHosts
     \/ Len(url) >= 3 /\ url[2] = UserInfo /\ url[3] \in UrlHosts

\* new URL(url).protocol: the scheme, which the URL parser lower-cases
UrlProtocol(url) == IF url[1] = "HTTPS://" THEN "https://" ELSE url[1]

\* new URL(url).hostname
UrlHostname(url) == IF url[2] = UserInfo THEN url[3] ELSE url[2]

\* new URL(url).origin
UrlOrigin(url) == <<url[1], UrlHostname(url)>>

\* a '?' with nothing behind it: the URL has a query, and it is empty
EmptyQuery == "?"

\* a '#' with nothing behind it
EmptyHash == "#"

\* new URL(url).search: '?' and the query, the empty string when the query
\* is missing or empty
UrlSearch(url) == IF Includes(url, QueryPart) THEN QueryPart ELSE ""

\* new URL(url).hash: '#' and the fragment, the empty string when the
\* fragment is missing or empty
UrlHash(url) == IF Includes(url, HashPart) THEN HashPart ELSE ""


\* isValidSMPUrl without the test for a query or fragment
isValidSMPUrlAnyQuery(url) ==
  IF ~UrlParses(url) THEN FALSE
  ELSE IF UrlProtocol(url) # "https://" /\ UrlProtocol(url) # "http://" THEN FALSE
  ELSE IF Includes(url, UserInfo) THEN FALSE
  ELSE TRUE

\* NAPTRResolver.isValidSMPUrl
isValidSMPUrl(url) ==
  IF ~UrlParses(url) THEN FALSE
  ELSE IF UrlProtocol(url) # "https://" /\ UrlProtocol(url) # "http://" THEN FALSE
  ELSE IF Includes(url, UserInfo) THEN FALSE
  ELSE IF UrlSearch(url) # "" \/ UrlHash(url) # "" THEN FALSE
  ELSE TRUE

(* ------------------------------ NAPTR lookup --------------------------- *)

\* most NAPTR records in one answer
MaxRecords == 1

\* the regexp field of a record: !pattern!url!
NaptrRegexp(url) == <<"!", "^.*$", "!">> \o url \o <<"!">>

UrlHttps == <<"https://", SmpHost, "/">>

UrlHttpMarker == <<"http://", SmpHost, "/", Marker404>>

UrlWithQuery == <<"https://", SmpHost, QueryPart>>

UrlWithUser == <<"https://", UserInfo, SmpHost>>

UrlFtp == <<"ftp://", SmpHost>>

\* the records a NAPTR answer is made of
NaptrRecords ==
  { [service |-> Some("Meta:SMP"), order |-> Some(10), preference |-> Some(10),
     regexp |-> Some(NaptrRegexp(UrlHttps))],
    [service |-> Some("meta:smp"), order |-> Some(10), preference |-> Some(5),
     regexp |-> Some(NaptrRegexp(UrlHttpMarker))],
    [service |-> Some("E2U+sip"), order |-> Some(1), preference |-> Some(1),
     regexp |-> Some(NaptrRegexp(UrlHttps))],
    [service |-> Some("Meta:SMP"), order |-> Some(10), preference |-> Some(10),
     regexp |-> Some(NaptrRegexp(UrlWithQuery))],
    [service |-> Some("Meta:SMP"), order |-> Some(10), preference |-> Some(10),
     regexp |-> Some(NaptrRegexp(UrlFtp))],
    [service |-> Some("Meta:SMP"), order |-> Some(10), preference |-> Some(10),
     regexp |-> Some(<<"^.*$", "!">> \o UrlHttps)],
    [service |-> Some("Meta:SMP"), order |-> Some(10), preference |-> Some(10),
     regexp |-> None],
    [service |-> None, order |-> None, preference |-> None,
     regexp |-> Some(NaptrRegexp(UrlHttps))] }

\* what resolver.resolveNaptr can end with: an answer, or an error code
DnsOutcomes ==
  [kind : {"answer"}, code : {"NOERROR"}, records : SeqUpTo(NaptrRecords, MaxRecords)]
  \cup [kind : {"error"}, code : {"ENOTFOUND", "ENODATA", "ESERVFAIL", "TIMEOUT"},
        records : {<<>>}]

\* String.toLowerCase on the service names that occur
ToLowerCase(s) == IF s = "Meta:SMP" THEN "meta:smp" ELSE s

\* x ?? 0
OrZero(o) == IF IsSome(o) THEN o[1] ELSE 0

\* the comparator handed to Array.sort
NaptrCompare(a, b) ==
  IF a.order # b.order THEN OrZero(a.order) - OrZero(b.order)
  ELSE OrZero(a.preference) - OrZero(b.preference)

RECURSIVE InsertSorted(_, _)
\* stable insertion of r into the sorted list: behind every record that
\* does not compare greater
InsertSorted(sorted, r) ==
  IF sorted = <<>> THEN <<r>>
  ELSE IF NaptrCompare(Head(sorted), r) <= 0
       THEN <<Head(sorted)>> \o InsertSorted(Tail(sorted), r)
       ELSE <<r>> \o sorted

RECURSIVE SortRecords(_)
\* Array.sort with NaptrCompare (stable)
SortRecords(records) ==
  IF records = <<>> THEN <<>>
  ELSE InsertSorted(SortRecords(SubSeq(records, 1, Len(records) - 1)),
                    records[Len(records)])

\* regexp.match(/!(.*)!(.*)!/)[2]: the text between the last two '!'
RegexpUrl(regexp) ==
  LET bangs == {i \in DOMAIN regexp : regexp[i] = "!"}
      last == CHOOSE i \in bangs : \A j \in bangs : j <= i
      prev == CHOOSE i \in bangs \ {last} : \A j \in bangs \ {last} : j <= i
  IN IF Cardinality(bangs) < 3 THEN None
     ELSE Some(SubSeq(regexp, prev + 1, last - 1))

\* NAPTRResolver.extractSMPUrl: the SMP base URL, or None for null
extractSMPUrl(records) ==
  LET smpRecords == SelectSeq(records,
        LAMBDA record : IsSome(record.service)
                         /\ ToLowerCase(record.service[1]) = "meta:smp")
      sorted == SortRecords(smpRecords)
      regexp == sorted[1].regexp
      match == RegexpUrl(regexp[1])
      url == match[1]
  IN IF smpRecords = <<>> THEN None
     ELSE IF regexp = None \/ regexp = Some(<<>>) THEN None
     ELSE IF match = None THEN None
     ELSE IF ~isValidSMPUrl(url) THEN None
     ELSE IF url[Len(url)] = "/" THEN Some(SubSeq(url, 1, Len(url) - 1))
     ELSE Some(url)

\* resolveNAPTR taking a timeout for an empty answer as well
resolveNAPTRTimeoutEmpty(domain, outcome) ==
  IF outcome.kind = "answer"
  THEN [threw |-> FALSE, records |-> outcome.records, message |-> <<>>]
  ELSE IF outcome.code \in {"ENOTFOUND", "ENODATA", "TIMEOUT"}
  THEN [threw |-> FALSE, records |-> <<>>, message |-> <<>>]
  ELSE [threw |-> TRUE, records |-> <<>>,
        message |-> <<"DNS NAPTR lookup failed for ">> \o domain
                    \o <<": ", outcome.code>>]

\* NAPTRResolver.resolveNAPTR: the records, or a thrown error message
resolveNAPTR(domain, outcome) ==
  IF outcome.kind = "answer"
  THEN [threw |-> FALSE, records |-> outcome.records, message |-> <<>>]
  ELSE IF outcome.code \in {"ENOTFOUND", "ENODATA"}
  THEN [threw |-> FALSE, records |-> <<>>, message |-> <<>>]
  ELSE [threw |-> TRUE, records |-> <<>>,
        message |-> <<"DNS NAPTR lookup failed for ">> \o domain
                    \o <<": ", outcome.code>>]

\* the name queried: {hash}.iso6523-actorid-upis.{sml-domain}
QueryName(participantHash) ==
  participantHash \o <<".iso6523-actorid-upis.", "edelivery.tech.ec.europa.eu">>

\* NAPTRResolver.lookupSMP, once the query has settled with `outcome`
lookupSMP(participantHash, outcome) ==
  LET r == resolveNAPTR(QueryName(participantHash), outcome)
  IN IF r.threw THEN [threw |-> TRUE, smpUrl |-> None, message |-> r.message]
     ELSE [threw |-> FALSE, smpUrl |-> extractSMPUrl(r.records), message |-> <<>>]

(* ------------------------------ XML documents -------------------------- *)

\* ServiceMetadataReference hrefs, as text
HrefBase == "http://smp.example.com/iso6523-actorid-upis::id"

HrefInvoice == <<HrefBase, "/services/", "busdox-docid-qns", "%3A%3A", "Invoice">>

HrefCreditNote == <<HrefBase, "/services/", "busdox-docid-qns", "%3A%3A", "CreditNote">>

HrefNoServices == <<HrefBase, "/documents/", "Order">>

HrefBadEscape == <<HrefBase, "/services/", "%E0%A4%A">>

Hrefs == {HrefInvoice, HrefNoServices, HrefBadEscape}

\* certificates an endpoint can carry: one the certificate parser decodes,
\* one it rejects.  A certificate string is the sequence of its pieces:
\* base64 text, PEM armour lines, white space
CertGood == <<"MIIGood">>

CertBad == <<"not-a-certificate">>

\* the texts of ServiceActivationDate / ServiceExpirationDate elements: one
\* that is a date and one that is none
DateText == "2024-01-01T00:00:00Z"

NoDateText == "next spring"

\* Endpoint elements: transportProfile attribute, EndpointURI / Address
\* text, Certificate text, ServiceActivationDate and ServiceExpirationDate
\* text
EndpointElements ==
  { [transportProfile |-> Some("peppol-transport-as4-v2_0"),
     endpointUri |-> Some("https://as4.example.com/as4"), address |-> None,
     certificate |-> Some(CertGood),
     serviceActivationDate |-> None, serviceExpirationDate |-> None],
    [transportProfile |-> Some("peppol-transport-as4-v2_0"),
     endpointUri |-> None, address |-> Some("https://legacy.example.com/as2"),
     certificate |-> Some(CertBad),
     serviceActivationDate |-> None, serviceExpirationDate |-> None],
    [transportProfile |-> Some("busdox-transport-as2-ver1p0"),
     endpointUri |-> Some("https://as2.example.com/as2"), address |-> None,
     certificate |-> None,
     serviceActivationDate |-> None, serviceExpirationDate |-> None],
    [transportProfile |-> None,
     endpointUri |-> Some("https://as4.example.com/as4"), address |-> None,
     certificate |-> Some(CertGood),
     serviceActivationDate |-> None, serviceExpirationDate |-> None] }

\* Process elements: whether a ProcessIdentifier with scheme and value is
\* present, and the Endpoint elements of the ServiceEndpointList
ProcessElements ==
  [processIdentifier : BOOLEAN, endpoints : SeqUpTo(EndpointElements, MaxEndpoints)]

NoProcesses == <<>>

\* A response body.  root: the root element ("" when the body is no XML);
\* participant: a ParticipantIdentifier with scheme and value is present;
\* refs: the ServiceMetadataReference elements, each with its href or none;
\* redirect: the href of a top-level Redirect; documentIdentifier: a
\* ServiceInformation with a complete DocumentIdentifier is present;
\* processes: the Process elements; entityName: the Name of a BusinessEntity.
Body(root, participant, refs, redirect, documentIdentifier, processes, entityName) ==
  [root |-> root, participant |-> participant, refs |-> refs, redirect |-> redirect,
   documentIdentifier |-> documentIdentifier, processes |-> processes,
   entityName |-> entityName]

NotXml == Body("", FALSE, <<>>, None, FALSE, NoProcesses, None)

ServiceGroupBodies ==
  {Body("ServiceGroup", p, refs, None, FALSE, NoProcesses, None) :
     p \in BOOLEAN, refs \in SeqUpTo({None} \cup {Some(h) : h \in Hrefs}, MaxRefs)}

ServiceMetadataBodies ==
  {Body(root, FALSE, <<>>, None, d, procs, None) :
     root \in {"ServiceMetadata", "SignedServiceMetadata"}, d \in BOOLEAN,
     procs \in SeqUpTo(ProcessElements, MaxProcs)}
  \cup {Body("ServiceMetadata", FALSE, <<>>, Some(HrefInvoice), FALSE, NoProcesses, None)}

BusinessCardBodies ==
  {Body("BusinessCard", FALSE, <<>>, None, FALSE, NoProcesses, Some("Acme NV"))}

\* decodeURIComponent: throws on a malformed escape, decodes %3A%3A
DecodeThrows(text) == Includes(text, "%E0%A4%A")

decodeURIComponent(text) ==
  [i \in DOMAIN text |-> IF text[i] = "%3A%3A" THEN "::" ELSE text[i]]

\* encodeURIComponent on the fragments of identifiers
encodeURIComponent(text) ==
  [i \in DOMAIN text |->
     IF text[i] = "::" THEN "%3A%3A"
     ELSE IF text[i] = ":" THEN "%3A"
     ELSE IF text[i] = "iso6523-actorid-upis::" THEN "iso6523-actorid-upis%3A%3A"
     ELSE IF text[i] = Marker404 THEN "SMP%20returned%20status%20404"
     ELSE text[i]]


\* parseServiceGroup insisting on at least one reference
parseServiceGroupStrict(body) ==
  IF body.root # "ServiceGroup" \/ ~body.participant \/ body.refs = <<>>
  THEN [threw |-> TRUE, serviceReferences |-> <<>>,
        message |-> <<"Failed to parse ServiceGroup XML: ",
                      "Invalid ServiceGroup XML: no ServiceMetadataReference">>]
  ELSE [threw |-> FALSE, message |-> <<>>,
        serviceReferences |->
          LET present == SelectSeq(body.refs, LAMBDA ref : IsSome(ref))
          IN [i \in DOMAIN present |-> present[i][1]]]

\* XMLParser.parseServiceGroup
parseServiceGroup(body) ==
  IF body.root # "ServiceGroup"
  THEN [threw |-> TRUE, serviceReferences |-> <<>>,
        message |-> <<"Failed to parse ServiceGroup XML: ",
                      "Invalid ServiceGroup XML: missing ServiceGroup element">>]
  ELSE IF ~body.participant
  THEN [threw |-> TRUE, serviceReferences |-> <<>>,
        message |-> <<"Failed to parse ServiceGroup XML: ",
                      "Invalid ServiceGroup XML: missing ParticipantIdentifier">>]
  ELSE [threw |-> FALSE, message |-> <<>>,
        serviceReferences |->
          LET present == SelectSeq(body.refs, LAMBDA ref : IsSome(ref))
          IN [i \in DOMAIN present |-> present[i][1]]]

\* what `new Date(text)` is when text is no date: a Date object whose time
\* value is NaN
InvalidDate == [time |-> "NaN"]

\* new Date(text): it throws for no string
NewDate(text) == IF text = DateText THEN [time |-> text] ELSE InvalidDate

\* parseEndpointsFromParsedXML, "Parse dates if present"
ParseDate(text) == IF IsSome(text) THEN Some(NewDate(text[1])) ELSE None

\* XMLParser.parseEndpointsFromParsedXML
parseEndpoints(elements) ==
  LET kept == SelectSeq(elements,
        LAMBDA e : IsSome(e.transportProfile)
                    /\ (IsSome(e.endpointUri) \/ IsSome(e.address)))
  IN [i \in DOMAIN kept |->
        [transportProfile |-> kept[i].transportProfile[1],
         endpointUrl |-> IF IsSome(kept[i].endpointUri) THEN kept[i].endpointUri[1]
                         ELSE kept[i].address[1],
         certificate |-> kept[i].certificate,
         serviceActivationDate |-> ParseDate(kept[i].serviceActivationDate),
         serviceExpirationDate |-> ParseDate(kept[i].serviceExpirationDate)]]

\* XMLParser.parseProcessesFromParsedXML
parseProcesses(elements) ==
  LET kept == SelectSeq(elements, LAMBDA p : p.processIdentifier)
  IN [i \in DOMAIN kept |-> [endpoints |-> parseEndpoints(kept[i].endpoints)]]

\* parseServiceMetadata refusing a document that holds a Redirect
parseServiceMetadataRedirectThrows(body) ==
  IF body.root \notin {"ServiceMetadata", "SignedServiceMetadata"}
  THEN [threw |-> TRUE, documentTypes |-> <<>>, redirect |-> None,
        message |-> <<"Failed to parse ServiceMetadata XML: ",
                      "Invalid ServiceMetadata XML: missing ServiceMetadata element">>]
  ELSE IF IsSome(body.redirect) \/ ~body.documentIdentifier
  THEN [threw |-> TRUE, documentTypes |-> <<>>, redirect |-> None,
        message |-> <<"Failed to parse ServiceMetadata XML: ",
                      "Invalid ServiceMetadata XML: missing DocumentIdentifier">>]
  ELSE [threw |-> FALSE, redirect |-> None, message |-> <<>>,
        documentTypes |-> <<[processes |-> parseProcesses(body.processes)]>>]

\* XMLParser.parseServiceMetadata
parseServiceMetadata(body) ==
  IF body.root \notin {"ServiceMetadata", "SignedServiceMetadata"}
  THEN [threw |-> TRUE, documentTypes |-> <<>>, redirect |-> None,
        message |-> <<"Failed to parse ServiceMetadata XML: ",
                      "Invalid ServiceMetadata XML: missing ServiceMetadata element">>]
  ELSE IF IsSome(body.redirect)
  THEN [threw |-> FALSE, documentTypes |-> <<>>, redirect |-> body.redirect,
        message |-> <<>>]
  ELSE IF ~body.documentIdentifier
  THEN [threw |-> TRUE, documentTypes |-> <<>>, redirect |-> None,
        message |-> <<"Failed to parse ServiceMetadata XML: ",
                      "Invalid ServiceMetadata XML: missing DocumentIdentifier">>]
  ELSE [threw |-> FALSE, redirect |-> None, message |-> <<>>,
        documentTypes |-> <<[processes |-> parseProcesses(body.processes)]>>]

(* ---------------------------------- HTTP -------------------------------- *)

\* what one GET can end with: a response (statusCode, Location header, body)
\* or a transport-level failure (connection error, timeout)
Response(statusCode, location, body) ==
  [kind |-> "response", statusCode |-> statusCode, location |-> location,
   body |-> body, message |-> <<>>]

HttpError ==
  [kind |-> "error", statusCode |-> 0, location |-> None, body |-> NotXml,
   message |-> <<"connect ETIMEDOUT">>]

RedirectTarget == <<"https://", "smp2.example.com", "/moved">>

RedirectResponses == {Response(302, l, NotXml) : l \in {None, Some(RedirectTarget)}}

ServiceGroupOutcomes ==
  {HttpError}
  \cup {Response(200, None, b) : b \in ServiceGroupBodies \cup {NotXml}}
  \cup {Response(c, None, NotXml) : c \in {404, 500}}
  \cup RedirectResponses

ServiceMetadataOutcomes ==
  {HttpError}
  \cup {Response(200, None, b) : b \in ServiceMetadataBodies \cup {NotXml}}
  \cup {Response(c, None, NotXml) : c \in {404, 500}}
  \cup RedirectResponses

BusinessCardOutcomes ==
  {HttpError}
  \cup {Response(200, None, b) : b \in BusinessCardBodies \cup {NotXml}}
  \cup {Response(404, None, NotXml)}

\* RedirectOptions.maxRedirects ?? 1
maxRedirects == 1

\* followRedirects without the test against maxRedirects
followRedirectsUnbounded(url, count, outcome) ==
  IF outcome.kind = "error"
  THEN [kind |-> "throw", message |-> outcome.message, currentUrl |-> url,
        redirectCount |-> count]
  ELSE IF outcome.statusCode >= 300 /\ outcome.statusCode < 400
  THEN IF outcome.location = None
       THEN [kind |-> "throw", currentUrl |-> url, redirectCount |-> count,
             message |-> <<"Redirect response missing Location header: ">> \o url]
       ELSE IF count + 1 > maxRedirects + 1
       THEN [kind |-> "throw", currentUrl |-> outcome.location[1],
             redirectCount |-> count + 1,
             message |-> <<"Maximum redirects (", ToString(maxRedirects), ") exceeded">>]
       ELSE [kind |-> "get", currentUrl |-> outcome.location[1],
             redirectCount |-> count + 1, message |-> <<>>]
  ELSE [kind |-> "return", currentUrl |-> url, redirectCount |-> count,
        message |-> <<>>]

\* One turn of the loop of RedirectHandler.followRedirects, entered with
\* redirectCount <= maxRedirects, once the GET of currentUrl has settled:
\* "get" another URL, "return" the response, or "throw".
followRedirects(url, count, outcome) ==
  IF outcome.kind = "error"
  THEN [kind |-> "throw", message |-> outcome.message, currentUrl |-> url,
        redirectCount |-> count]
  ELSE IF outcome.statusCode >= 300 /\ outcome.statusCode < 400
  THEN IF outcome.location = None
       THEN [kind |-> "throw", currentUrl |-> url, redirectCount |-> count,
             message |-> <<"Redirect response missing Location header: ">> \o url]
       ELSE IF count + 1 > maxRedirects
       THEN [kind |-> "throw", currentUrl |-> outcome.location[1],
             redirectCount |-> count + 1,
             message |-> <<"Maximum redirects (", ToString(maxRedirects), ") exceeded">>]
       ELSE [kind |-> "get", currentUrl |-> outcome.location[1],
             redirectCount |-> count + 1, message |-> <<>>]
  ELSE [kind |-> "return", currentUrl |-> url, redirectCount |-> count,
        message |-> <<>>]

(* -------------------------- ServiceGroup stage ------------------------- *)

\* `${smpUrl}/iso6523-actorid-upis::${participantId}`
ServiceGroupUrl(smp, id) == smp \o <<"/iso6523-actorid-upis::">> \o id

\* `SMP returned status ${response.statusCode}`
StatusMessage(statusCode) == <<"SMP returned status " \o ToString(statusCode)>>

\* the code list of document types (DocumentTypeLookup.getFriendlyName)
CodeListName(documentId) ==
  IF documentId = <<"Invoice">> THEN <<"Peppol BIS Billing UBL Invoice V3">> ELSE <<>>

\* SMPResolver.extractFriendlyDocumentName; the UBL and CII patterns match
\* none of the identifiers of Hrefs
extractFriendlyDocumentName(documentId) ==
  LET friendlyName == CodeListName(documentId)
      withoutScheme ==
        IF Len(documentId) >= 2 /\ documentId[1] # "::" /\ documentId[2] = "::"
        THEN SubSeq(documentId, 3, Len(documentId)) ELSE documentId
      parts == Split(withoutScheme, "::")
  IN IF friendlyName # <<>> THEN friendlyName
     ELSE IF parts[Len(parts)] # <<>> THEN parts[Len(parts)]
     ELSE documentId

\* the body of the loop over serviceGroup.serviceReferences: the document
\* type of one href, none when the href names no /services/ id
DocumentTypeOf(refUrl) ==
  LET i == IndexOf(refUrl, "/services/")
      docId == decodeURIComponent(SubSeq(refUrl, i + 1, Len(refUrl)))
      parts == Split(docId, "::")
      scheme == IF Includes(docId, "::") THEN parts[1] ELSE <<"busdox-docid-qns">>
      value == IF Includes(docId, "::") THEN Join(Tail(parts), "::") ELSE docId
  IN IF i = 0 \/ i = Len(refUrl) THEN None
     ELSE Some([documentIdentifier |-> [scheme |-> scheme, value |-> value],
                friendlyName |-> extractFriendlyDocumentName(value)])

\* decodeURIComponent throws URIError for this href
RefThrows(refUrl) ==
  LET i == IndexOf(refUrl, "/services/")
  IN i # 0 /\ i # Len(refUrl) /\ DecodeThrows(SubSeq(refUrl, i + 1, Len(refUrl)))

RECURSIVE DocumentTypesOf(_)
DocumentTypesOf(refs) ==
  IF refs = <<>> THEN <<>>
  ELSE DocumentTypeOf(Head(refs)) \o DocumentTypesOf(Tail(refs))

\* SMPResolver.fetchServiceMetadata from the point where followRedirects
\* has returned `response`
fetchServiceMetadata(response) ==
  LET serviceGroup == parseServiceGroup(response.body)
      refs == serviceGroup.serviceReferences
  IN IF response.statusCode # 200
     THEN [threw |-> TRUE, message |-> StatusMessage(response.statusCode),
           documentTypes |-> <<>>]
     ELSE IF serviceGroup.threw
     THEN [threw |-> TRUE, message |-> serviceGroup.message, documentTypes |-> <<>>]
     ELSE IF \E i \in DOMAIN refs : RefThrows(refs[i])
     THEN [threw |-> TRUE, message |-> <<"URI malformed">>, documentTypes |-> <<>>]
     ELSE [threw |-> FALSE, message |-> <<>>, documentTypes |-> DocumentTypesOf(refs)]


\* IsParkedDueToNoServiceGroup looking for a text no error carries
IsParkedNever(message) == Includes(message, "SMP returned 404")

\* error.message.includes('SMP returned status 404')
IsParkedDueToNoServiceGroup(message) == Includes(message, Marker404)

(* ------------------------- certificate parser -------------------------- *)

PemBegin == "-----BEGIN CERTIFICATE-----"

PemEnd == "-----END CERTIFICATE-----"

WhiteSpace == {"\n", " "}

\* the three replace calls of computeFingerprint and parseX509: PEM armour
\* and white space removed, the base64 text that is left
RECURSIVE Concat(_)
Concat(pieces) ==
  IF pieces = <<>> THEN "" ELSE Head(pieces) \o Concat(Tail(pieces))

IsBase64Piece(piece) == piece \notin ({PemBegin, PemEnd} \cup WhiteSpace)

Normalized(rawCertificate) == Concat(SelectSeq(rawCertificate, IsBase64Piece))

\* base64 texts that decode to the DER of an X.509 certificate
DerTexts == {"MIIGood", "MIIOther"}

\* CertificateParser.computeFingerprint: the digest of the decoded bytes,
\* kept symbolic
computeFingerprint(rawCertificate) == "sha256:" \o Normalized(rawCertificate)

\* CertificateParser.parseX509 throws on what is no certificate
ParseX509Throws(rawCertificate) == Normalized(rawCertificate) \notin DerTexts

VARIABLE now     \* the wall clock: what `new Date()` gives

\* cert.notAfter, on the scale of the wall clock
NotAfter(rawCertificate) ==
  IF Normalized(rawCertificate) = "MIIGood" THEN 1 ELSE 0

\* CertificateParser.parseX509: the CertificateInfo built, as the object
\* numbered object
parseX509(rawCertificate, fingerprint, object) ==
  [fingerprint |-> fingerprint, raw |-> rawCertificate, object |-> object,
   isExpired |-> now > NotAfter(rawCertificate)]

\* parse building a new CertificateInfo on every call
CertificateParseUncached(cache, rawCertificate, object) ==
  LET fingerprint == computeFingerprint(rawCertificate)
      info == parseX509(rawCertificate, fingerprint, object)
  IN IF ParseX509Throws(rawCertificate)
     THEN [info |-> None, cache |-> cache]
     ELSE [info |-> Some(info),
           cache |-> {c \in cache : c.fingerprint # fingerprint} \cup {info}]

\* CertificateParser.parse: the info returned (none when it throws) and the
\* cache afterwards; object is the identity a CertificateInfo built by this
\* call gets
CertificateParse(cache, rawCertificate, object) ==
  LET fingerprint == computeFingerprint(rawCertificate)
      cached == {c \in cache : c.fingerprint = fingerprint}
      info == parseX509(rawCertificate, fingerprint, object)
  IN IF cached # {}
     THEN [info |-> Some(CHOOSE c \in cached : TRUE), cache |-> cache]
     ELSE IF ParseX509Throws(rawCertificate)
     THEN [info |-> None, cache |-> cache]
     ELSE [info |-> Some(info), cache |-> cache \cup {info}]

\* CertificateParser.getCacheStats().size
CacheSize(cache) == Cardinality(cache)

\* CertificateParser.clearCache
clearCache(cache) == {}

(* ---------------- what the network answered, as observed --------------- *)

\* The log of a call keeps, for every settled request, the kind of answer
\* it got.  These kinds are read off the answer itself, not off what the
\* resolver made of it.

\* the records of an answer that advertise an SMP
AdvertisesSmp(record) ==
  IsSome(record.service) /\ record.service[1] \in {"Meta:SMP", "meta:smp"}

\* the position of the record to use: smallest order, then smallest
\* preference, then first in the answer
PreferredRecord(records) ==
  CHOOSE i \in DOMAIN records :
    /\ AdvertisesSmp(records[i])
    /\ \A j \in DOMAIN records : AdvertisesSmp(records[j]) =>
         \/ records[i].order[1] < records[j].order[1]
         \/ /\ records[i].order[1] = records[j].order[1]
            /\ records[i].preference[1] < records[j].preference[1]
         \/ /\ records[i].order[1] = records[j].order[1]
            /\ records[i].preference[1] = records[j].preference[1]
            /\ i <= j

\* a regexp field of the form !pattern!url!
DelimitedRegexp(regexp) ==
  /\ Len(regexp) >= 5
  /\ regexp[1] = "!" /\ regexp[3] = "!" /\ regexp[Len(regexp)] = "!"
  /\ \A i \in 4..(Len(regexp) - 1) : regexp[i] # "!"

\* an absolute http(s) URL without userinfo, query and fragment
PlainHttpUrl(url) ==
  /\ Len(url) >= 2
  /\ url[1] \in {"http://", "https://", "HTTPS://"}
  /\ url[2] \in UrlHosts
  /\ \A i \in DOMAIN url :
       url[i] \notin {UserInfo, QueryPart, HashPart, EmptyQuery, EmptyHash}

DnsClass(o) ==
  IF o.kind = "error"
  THEN IF o.code \in {"ENOTFOUND", "ENODATA"} THEN "nxdomain" ELSE "failure"
  ELSE IF o.records = <<>> THEN "empty"
  ELSE IF \A i \in DOMAIN o.records : ~AdvertisesSmp(o.records[i]) THEN "noSmpRecord"
  ELSE LET regexp == o.records[PreferredRecord(o.records)].regexp
       IN IF regexp = None THEN "noUrl"
          ELSE IF ~DelimitedRegexp(regexp[1]) THEN "noUrl"
          ELSE IF ~PlainHttpUrl(SubSeq(regexp[1], 4, Len(regexp[1]) - 1))
          THEN "invalidUrl"
          ELSE "url"

\* DNS answers that name no SMP
DnsAbsent == {"nxdomain", "empty", "noSmpRecord", "noUrl", "invalidUrl"}

\* the kind of an HTTP answer, the body of a 200 apart
HttpClass(o) ==
  IF o.kind = "error" THEN "error"
  ELSE IF o.statusCode >= 300 /\ o.statusCode < 400
  THEN IF o.location = None THEN "redirectNoLocation" ELSE "redirect"
  ELSE "status:" \o ToString(o.statusCode)

ServiceGroupClass(o) ==
  IF HttpClass(o) # "status:200" THEN HttpClass(o)
  ELSE IF o.body.root # "ServiceGroup" \/ ~o.body.participant THEN "200:malformed"
  ELSE IF o.body.refs = <<>> THEN "200:empty"
  ELSE "200:references"

ServiceMetadataClass(o) ==
  IF HttpClass(o) # "status:200" THEN HttpClass(o)
  ELSE IF o.body.root \notin {"ServiceMetadata", "SignedServiceMetadata"}
  THEN "200:malformed"
  ELSE IF IsSome(o.body.redirect) THEN "200:smpRedirect"
  ELSE IF ~o.body.documentIdentifier THEN "200:malformed"
  ELSE "200:metadata"

\* the kind of answer a probe request of resolve got: a transport error, a
\* 200 document holding a business entity, or any other response
ProbeClass(o) ==
  IF o.kind = "error" THEN "error"
  ELSE IF o.statusCode = 200 /\ o.body.root = "BusinessCard" /\ IsSome(o.body.entityName)
  THEN "card"
  ELSE "response"

(* --------------------------- resolver: state --------------------------- *)

VARIABLES
  pc,             \* where the resolve call stands: idle, dns, sg, sm, bcDns, bcProbe, done
  participantId,  \* argument of resolve
  options,        \* argument of resolve
  smpUrl,         \* resolve: smpUrl
  currentUrl,     \* followRedirects: currentUrl
  redirectCount,  \* followRedirects: redirectCount
  documentTypes,  \* resolve: serviceMetadata.documentTypes
  endpointInfo,   \* resolve: endpointInfo (endpoint, diagnostics)
  result,         \* resolve: the result object, once built
  outcome,        \* how the call ended: pending, returned, threw
  net,            \* the DNS queries and HTTP requests of this call, with what each ended with
  bcBase,         \* fetchBusinessCardXML: baseUrl
  bcPos,          \* fetchBusinessCardXML: which loop, which pattern
  cache,          \* CertificateParser.cache
  calls,          \* the calls made on the certificate parser, with what each returned
  pools,          \* HTTPClient.pools: the map from origin to pool
  poolState,      \* every Pool created so far: its origin, and open or closed
  records,        \* extractSMPUrl: the records it was called with
  extracted,      \* extractSMPUrl: what it returned
  elapsed,        \* once options.timeout has passed: what had been started by then
  other,          \* a second resolve call on the same resolver, waiting at an await
  answers,        \* what the DNS server and the SMP sent back, request by request
  encoder         \* base32Encode: buffer, i, value, bits, result

vars ==
  <<pc, participantId, options, smpUrl, currentUrl, redirectCount, documentTypes,
    endpointInfo, result, outcome, net, bcBase, bcPos, cache, calls, pools,
    poolState, records, extracted, elapsed, other, answers, now, encoder>>

\* the variables of one resolve call: its arguments, its local variables,
\* where it stands, and the answers it got
Frame ==
  [pc |-> pc, participantId |-> participantId, options |-> options,
   smpUrl |-> smpUrl, currentUrl |-> currentUrl, redirectCount |-> redirectCount,
   documentTypes |-> documentTypes, endpointInfo |-> endpointInfo,
   result |-> result, outcome |-> outcome, net |-> net, bcBase |-> bcBase,
   bcPos |-> bcPos]

\* what a resolve call has no part in
aside == <<records, extracted, elapsed, other, answers, now, encoder>>

\* ResolveOptions without a timeout; a missing options object behaves as
\* all flags false
ResolveOptions ==
  [fetchDocumentTypes : BOOLEAN, includeBusinessCard : BOOLEAN,
   parseCertificate : BOOLEAN, timeout : {None}]

NoOptions ==
  [fetchDocumentTypes |-> FALSE, includeBusinessCard |-> FALSE,
   parseCertificate |-> FALSE, timeout |-> None]

NoEndpointInfo == [endpoint |-> None, diagnostics |-> None]

Init ==
  /\ pc = "idle"
  /\ participantId = <<>>
  /\ options = NoOptions
  /\ smpUrl = None
  /\ currentUrl = <<>>
  /\ redirectCount = 0
  /\ documentTypes = <<>>
  /\ endpointInfo = NoEndpointInfo
  /\ result = None
  /\ outcome = "pending"
  /\ net = <<>>
  /\ bcBase = <<>>
  /\ bcPos = [scheme |-> "https", idx |-> 1]
  /\ cache = {}
  /\ calls = <<>>
  /\ pools = <<>>
  /\ poolState = <<>>
  /\ records = <<>>
  /\ extracted = None
  /\ elapsed = None
  /\ other = Frame
  /\ answers = <<>>
  /\ now = 0
  /\ encoder = [phase |-> "idle", buffer |-> <<>>, i |-> 0,
                value |-> [hi |-> 0, lo |-> 0], bits |-> 0, result |-> <<>>]

\* a request handed to the network, not yet settled
Issue(log, stage, target) ==
  Append(log, [stage |-> stage, target |-> target, settled |-> None])

\* the pending request settles with an answer of kind class
Settle(log, class) == [log EXCEPT ![Len(log)].settled = Some(class)]

\* new URL(url).origin
Origin(url) ==
  <<UrlProtocol(url),
    IF \E h \in UrlHosts : Includes(url, h)
    THEN CHOOSE h \in UrlHosts : Includes(url, h)
    ELSE url[2]>>

\* the stages whose requests go through HTTPClient
HttpStages == {"sg", "sm", "bc"}

\* getPool creating a pool on every call
getPoolAlwaysNew(map, created, origin) ==
  [pools |-> [g \in DOMAIN map \cup {origin} |->
                IF g = origin THEN Len(created) + 1 ELSE map[g]],
   poolState |-> Append(created, [origin |-> origin, state |-> "open"]),
   pool |-> Len(created) + 1]

\* HTTPClient.getPool: the pool of the origin, created and put into the map
\* when the map has none; the map, the pools created so far and the pool
\* returned.  A pool is known by its number in the order of creation.
getPool(map, created, origin) ==
  IF origin \in DOMAIN map
  THEN [pools |-> map, poolState |-> created, pool |-> map[origin]]
  ELSE [pools |-> [g \in DOMAIN map \cup {origin} |->
                     IF g = origin THEN Len(created) + 1 ELSE map[g]],
        poolState |-> Append(created, [origin |-> origin, state |-> "open"]),
        pool |-> Len(created) + 1]

\* getPool for the requests of a log, one after the other
RECURSIVE getPools(_, _, _)
getPools(map, created, log) ==
  IF log = <<>>
  THEN [pools |-> map, poolState |-> created]
  ELSE IF Head(log).stage \in HttpStages
  THEN LET got == getPool(map, created, Origin(Head(log).target))
       IN getPools(got.pools, got.poolState, Tail(log))
  ELSE getPools(map, created, Tail(log))

\* HTTPClient.get: every request the log holds went through the pool of its
\* origin
Pooled(log) ==
  LET got == getPools(pools, poolState, log)
  IN /\ pools' = got.pools
     /\ poolState' = got.poolState

\* one call of CertificateParser.parse as its caller sees it: the argument,
\* whether it threw, the object returned, the cache size afterwards
ParseCall(rawCertificate, parsed) ==
  [op |-> "parse", raw |-> rawCertificate, info |-> parsed.info,
   size |-> CacheSize(parsed.cache), at |-> now]

(* ------------------------- resolver: results --------------------------- *)

\* a ParticipantInfo with only the mandatory fields
ParticipantInfo(id, isRegistered, registrationStatus, hasActiveEndpoints, error) ==
  [participantId |-> id, isRegistered |-> isRegistered,
   registrationStatus |-> registrationStatus,
   hasActiveEndpoints |-> hasActiveEndpoints, error |-> error,
   smpHostname |-> None, documentTypes |-> None, endpoint |-> None,
   certificateInfo |-> None, businessEntity |-> None, diagnostics |-> None]


\* NoSmpResult with the isRegistered flag of the success branch
NoSmpResultRegistered(id) ==
  ParticipantInfo(id, TRUE, "unregistered", FALSE,
                  Some(<<"No SMP found via DNS lookup">>))

\* resolve: the value returned when lookupSMP gave no URL
NoSmpResult(id) ==
  ParticipantInfo(id, FALSE, "unregistered", FALSE,
                  Some(<<"No SMP found via DNS lookup">>))

\* resolve: the value returned by the outer catch
CatchResult(id, message) ==
  ParticipantInfo(id, FALSE, "unregistered", FALSE, Some(message))


\* ResolveCatch with the error escaping the catch block
ResolveCatchRethrows(id, message) ==
  [outcome |-> "threw", result |-> None]

\* resolve: the outer try/catch turns every throw into a returned value
ResolveCatch(id, message) ==
  [outcome |-> "returned", result |-> Some(CatchResult(id, message))]


\* RegistrationStatus decided by the document types alone
RegistrationStatusByDocumentTypes(epi, dts) ==
  LET hasEndpoints == IsSome(epi.endpoint)
      hasDocumentTypes == Len(dts) > 0
      hasActiveEndpoints == hasEndpoints /\ hasDocumentTypes
  IN [hasActiveEndpoints |-> hasActiveEndpoints,
      registrationStatus |-> IF hasDocumentTypes THEN "active" ELSE "parked"]

\* RegistrationStatus with only two states: active or unregistered
RegistrationStatusTwoStates(epi, dts) ==
  LET hasEndpoints == IsSome(epi.endpoint)
      hasDocumentTypes == Len(dts) > 0
      hasActiveEndpoints == hasEndpoints /\ hasDocumentTypes
  IN [hasActiveEndpoints |-> hasActiveEndpoints,
      registrationStatus |-> IF hasActiveEndpoints THEN "active" ELSE "unregistered"]

\* resolve: registrationStatus from endpointInfo and serviceMetadata
RegistrationStatus(epi, dts) ==
  LET hasEndpoints == IsSome(epi.endpoint)
      hasDocumentTypes == Len(dts) > 0
      hasActiveEndpoints == hasEndpoints /\ hasDocumentTypes
  IN [hasActiveEndpoints |-> hasActiveEndpoints,
      registrationStatus |-> IF hasActiveEndpoints THEN "active" ELSE "parked"]

\* BuildResult attaching the endpoint only when the certificate is asked for
BuildResultEndpointWithCertificate(id, opts, smp, epi, dts) ==
  LET st == RegistrationStatus(epi, dts)
      base == ParticipantInfo(id, TRUE, st.registrationStatus,
                              st.hasActiveEndpoints, None)
  IN [base EXCEPT
        !.smpHostname =
          IF opts.fetchDocumentTypes \/ opts.includeBusinessCard
          THEN Some(UrlHostname(smp)) ELSE None,
        !.documentTypes =
          IF opts.fetchDocumentTypes
          THEN Some([i \in DOMAIN dts |->
                 IF dts[i].friendlyName # <<>> THEN dts[i].friendlyName
                 ELSE dts[i].documentIdentifier.value])
          ELSE None,
        !.endpoint =
          IF opts.parseCertificate /\ IsSome(epi.endpoint)
          THEN epi.endpoint ELSE None]

\* resolve: "Build response based on options", up to the endpoint details
BuildResult(id, opts, smp, epi, dts) ==
  LET st == RegistrationStatus(epi, dts)
      base == ParticipantInfo(id, TRUE, st.registrationStatus,
                              st.hasActiveEndpoints, None)
  IN [base EXCEPT
        !.smpHostname =
          IF opts.fetchDocumentTypes \/ opts.includeBusinessCard
          THEN Some(UrlHostname(smp)) ELSE None,
        !.documentTypes =
          IF opts.fetchDocumentTypes
          THEN Some([i \in DOMAIN dts |->
                 IF dts[i].friendlyName # <<>> THEN dts[i].friendlyName
                 ELSE dts[i].documentIdentifier.value])
          ELSE None,
        !.endpoint =
          IF opts.fetchDocumentTypes /\ IsSome(epi.endpoint)
          THEN epi.endpoint ELSE None]

\* WantsCertificate without looking at the option
WantsCertificateUnasked(opts, epi) ==
  /\ IsSome(epi.endpoint)
  /\ IsSome(epi.endpoint[1].certificate)

\* resolve: the certificate parser is called iff requested and present
WantsCertificate(opts, epi) ==
  /\ opts.parseCertificate
  /\ IsSome(epi.endpoint)
  /\ IsSome(epi.endpoint[1].certificate)

\* resolve: "Include diagnostics if available"
WithDiagnostics(res, epi) ==
  IF IsSome(epi.diagnostics) THEN [res EXCEPT !.diagnostics = epi.diagnostics]
  ELSE res

(* ----------------------- ServiceMetadata stage ------------------------- *)

\* `${smpUrl}/iso6523-actorid-upis::${participantId}/services/${encodedDocId}`
MetadataUrl(smp, id, docType) ==
  ServiceGroupUrl(smp, id) \o <<"/services/">>
  \o encodeURIComponent(docType.documentIdentifier.scheme \o <<"::">>
                        \o docType.documentIdentifier.value)

\* extractEndpointInfo: one entry of smpErrors
SmpError(url, statusCode, message) ==
  [url |-> url, statusCode |-> statusCode, message |-> message]

\* FirstEndpoint looking through the processes for the first endpoint there is
FirstEndpointAnyProcess(serviceMetadata) ==
  LET processes == IF Len(serviceMetadata.documentTypes) > 0
                   THEN serviceMetadata.documentTypes[1].processes ELSE <<>>
      having == {i \in DOMAIN processes : Len(processes[i].endpoints) > 0}
  IN IF having # {}
     THEN LET i == CHOOSE i \in having : \A j \in having : i <= j
              endpoint == processes[i].endpoints[1]
          IN Some([url |-> endpoint.endpointUrl,
                   transportProfile |-> endpoint.transportProfile,
                   certificate |-> endpoint.certificate,
                   serviceActivationDate |-> endpoint.serviceActivationDate,
                   serviceExpirationDate |-> endpoint.serviceExpirationDate])
     ELSE None

\* extractEndpointInfo: first endpoint of first process of first document type
FirstEndpoint(serviceMetadata) ==
  IF Len(serviceMetadata.documentTypes) > 0
     /\ Len(serviceMetadata.documentTypes[1].processes) > 0
     /\ Len(serviceMetadata.documentTypes[1].processes[1].endpoints) > 0
  THEN LET endpoint == serviceMetadata.documentTypes[1].processes[1].endpoints[1]
       IN Some([url |-> endpoint.endpointUrl,
                transportProfile |-> endpoint.transportProfile,
                certificate |-> endpoint.certificate,
                serviceActivationDate |-> endpoint.serviceActivationDate,
                serviceExpirationDate |-> endpoint.serviceExpirationDate])
  ELSE None

\* SMPResolver.extractEndpointInfo from the point where followRedirects has
\* settled for metadataUrl: `step` is its return or its throw
extractEndpointInfo(metadataUrl, step, response) ==
  LET serviceMetadata == parseServiceMetadata(response.body)
  IN IF step.kind = "throw"
     THEN [endpoint |-> None,
           diagnostics |-> Some(<<SmpError(metadataUrl, 0, step.message)>>)]
     ELSE IF response.statusCode # 200
     THEN [endpoint |-> None,
           diagnostics |-> Some(<<SmpError(metadataUrl, response.statusCode,
             <<"SMP returned HTTP ", ToString(response.statusCode),
               " when fetching service metadata">>)>>)]
     ELSE IF serviceMetadata.threw
     THEN [endpoint |-> None,
           diagnostics |-> Some(<<SmpError(metadataUrl, 0, serviceMetadata.message)>>)]
     ELSE [endpoint |-> FirstEndpoint(serviceMetadata), diagnostics |-> None]

(* ------------------------- business-card probe ------------------------- *)

\* `iso6523-actorid-upis::${participantId}`
FullIdentifier(id) == <<"iso6523-actorid-upis::">> \o id

\* fetchBusinessCardXML: patterns
Patterns(id) ==
  << <<"/businesscard/">> \o FullIdentifier(id),
     <<"/">> \o encodeURIComponent(FullIdentifier(id)) \o <<"/businesscard">>,
     <<"/smp/businesscard/">> \o encodeURIComponent(FullIdentifier(id)),
     <<"/api/businesscard/">> \o encodeURIComponent(FullIdentifier(id)),
     <<"/rest/businesscard/">> \o encodeURIComponent(FullIdentifier(id)) >>

NumPatterns == 5

\* fetchBusinessCardXML: httpBase
HttpBase(baseUrl) ==
  IF baseUrl[1] = "https://" THEN <<"http://">> \o Tail(baseUrl) ELSE baseUrl

\* fetchBusinessCardXML: httpsBase
HttpsBase(baseUrl) ==
  IF baseUrl[1] = "http://" THEN <<"https://">> \o Tail(baseUrl) ELSE baseUrl

\* the URL requested at a position of the probe
ProbeUrl(baseUrl, id, pos) ==
  (IF pos.scheme = "https" THEN HttpsBase(baseUrl) ELSE HttpBase(baseUrl))
  \o Patterns(id)[pos.idx]

\* SMPResolver.parseBusinessCardXML: none of its pattern matches throws, so
\* an entity is always returned, named 'Unknown' when no Name matches
parseBusinessCardXML(body) ==
  Some([name |-> IF IsSome(body.entityName) THEN body.entityName[1] ELSE "Unknown",
        identifiers |-> <<[scheme |-> <<"unknown">>, value |-> <<"unknown">>]>>])

\* HTTPClient.getWithTimeout(url, timeoutMs): a GET with its own timeout; it
\* throws on a timeout or connection error and returns any HTTP response
getWithTimeout(o) == [threw |-> o.kind = "error", response |-> o]

\* response.statusCode === 200 && response.body.trim().startsWith('<')
IsCardResponse(o) ==
  o.kind = "response" /\ o.statusCode = 200 /\ o.body.root # ""

\* fetchBusinessCardXML: what follows the request at `pos` settling with o:
\* "get" the next position, or "return" an entity or null
fetchBusinessCardXML(pos, o) ==
  IF IsCardResponse(o)
  THEN [kind |-> "return", entity |-> parseBusinessCardXML(o.body), pos |-> pos]
  ELSE IF pos.scheme = "https"
  THEN IF getWithTimeout(o).threw \/ pos.idx = NumPatterns
       THEN [kind |-> "get", entity |-> None, pos |-> [scheme |-> "http", idx |-> 1]]
       ELSE [kind |-> "get", entity |-> None,
             pos |-> [scheme |-> "https", idx |-> pos.idx + 1]]
  ELSE IF getWithTimeout(o).threw \/ pos.idx = NumPatterns
       THEN [kind |-> "return", entity |-> None, pos |-> pos]
       ELSE [kind |-> "get", entity |-> None,
             pos |-> [scheme |-> "http", idx |-> pos.idx + 1]]

\* getBusinessCard: the entity of the card, a placeholder when the probe
\* found none
CardEntity(id, businessEntity) ==
  IF IsSome(businessEntity) THEN businessEntity[1]
  ELSE [name |-> "Unknown",
        identifiers |-> <<[scheme |-> Split(id, ":")[1], value |-> Split(id, ":")[2]]>>]

(* -------------------------- resolver: actions -------------------------- *)

\* Return with the return statement never reached: the call stays where
\* it is
ReturnNever(res) ==
  /\ pc' = pc
  /\ outcome' = "pending"
  /\ result' = None

\* the call returns res
Return(res) ==
  /\ pc' = "done"
  /\ outcome' = "returned"
  /\ result' = Some(res)

\* the call leaves resolve through the outer catch
Caught(message) ==
  /\ pc' = "done"
  /\ outcome' = ResolveCatch(participantId, message).outcome
  /\ result' = ResolveCatch(participantId, message).result

\* the hash resolve, getBusinessCard and lookupSMP compute for an identifier
HashOf(id) == hashParticipantId(Split(id, ":")[2], Split(id, ":")[1])

\* resolve, lines "Determine registration status" to the end, entered with
\* the document types dts, the endpoint info epi and the log so far
Classified(dts, epi, log) ==
  LET built == BuildResult(participantId, options, smpUrl[1], epi, dts)
      rawCertificate == epi.endpoint[1].certificate[1]
      parsed == IF WantsCertificate(options, epi)
                THEN CertificateParse(cache, rawCertificate, Len(calls) + 1)
                ELSE [info |-> None, cache |-> cache]
      res == [built EXCEPT !.certificateInfo = parsed.info]
  IN /\ documentTypes' = dts
     /\ endpointInfo' = epi
     /\ cache' = parsed.cache
     /\ calls' = IF WantsCertificate(options, epi)
                 THEN Append(calls, ParseCall(rawCertificate, parsed))
                 ELSE calls
     /\ IF options.includeBusinessCard
        THEN /\ pc' = "bcDns"
             /\ outcome' = "pending"
             /\ result' = Some(res)
             /\ net' = Issue(log, "bcDns", QueryName(HashOf(participantId)))
        ELSE /\ Return(WithDiagnostics(res, epi))
             /\ net' = log

\* resolve(participantId, options) is called: the identifier is split and
\* hashed, and the NAPTR query is issued
Resolve(id, opts) ==
  /\ pc = "idle"
  /\ participantId' = id
  /\ options' = opts
  /\ smpUrl' = None
  /\ currentUrl' = <<>>
  /\ redirectCount' = 0
  /\ documentTypes' = <<>>
  /\ endpointInfo' = NoEndpointInfo
  /\ bcBase' = <<>>
  /\ bcPos' = [scheme |-> "https", idx |-> 1]
  /\ UNCHANGED <<cache, calls>>
  /\ IF SplitRejects(id)
     THEN /\ pc' = "done"
          /\ outcome' = ResolveCatch(id,
               <<"Invalid participant ID format. Expected: scheme:value">>).outcome
          /\ result' = ResolveCatch(id,
               <<"Invalid participant ID format. Expected: scheme:value">>).result
          /\ net' = <<>>
     ELSE /\ pc' = "dns"
          /\ outcome' = "pending"
          /\ result' = None
          /\ net' = Issue(<<>>, "dns", QueryName(HashOf(id)))
  /\ Pooled(net')
  /\ UNCHANGED aside

\* the NAPTR query of resolve settles
DnsSettles(o) ==
  /\ pc = "dns"
  /\ LET r == lookupSMP(HashOf(participantId), o)
         log == Settle(net, DnsClass(o))
     IN IF r.threw
        THEN /\ Caught(r.message)
             /\ net' = log
             /\ UNCHANGED <<smpUrl, currentUrl, redirectCount>>
        ELSE IF r.smpUrl = None
        THEN /\ Return(NoSmpResult(participantId))
             /\ net' = log
             /\ UNCHANGED <<smpUrl, currentUrl, redirectCount>>
        ELSE /\ pc' = "sg"
             /\ smpUrl' = r.smpUrl
             /\ currentUrl' = ServiceGroupUrl(r.smpUrl[1], participantId)
             /\ redirectCount' = 0
             /\ net' = Issue(log, "sg", ServiceGroupUrl(r.smpUrl[1], participantId))
             /\ UNCHANGED <<outcome, result>>
  /\ UNCHANGED <<participantId, options, documentTypes, endpointInfo, bcBase, bcPos, cache, calls>>
  /\ Pooled(net')
  /\ UNCHANGED aside

\* a GET of the ServiceGroup fetch settles
ServiceGroupSettles(o) ==
  /\ pc = "sg"
  /\ LET step == followRedirects(currentUrl, redirectCount, o)
         log == Settle(net, ServiceGroupClass(o))
         fetched == fetchServiceMetadata(o)
         threw == step.kind = "throw" \/ fetched.threw
         message == IF step.kind = "throw" THEN step.message ELSE fetched.message
     IN IF step.kind = "get"
        THEN /\ currentUrl' = step.currentUrl
             /\ redirectCount' = step.redirectCount
             /\ net' = Issue(log, "sg", step.currentUrl)
             /\ UNCHANGED <<pc, outcome, result, documentTypes, endpointInfo, cache, calls>>
        ELSE IF threw /\ ~IsParkedDueToNoServiceGroup(message)
        THEN /\ Caught(message)
             /\ net' = log
             /\ UNCHANGED <<currentUrl, redirectCount, documentTypes, endpointInfo, cache, calls>>
        ELSE IF threw
        THEN /\ Classified(<<>>, NoEndpointInfo, log)
             /\ UNCHANGED <<currentUrl, redirectCount>>
        ELSE IF Len(fetched.documentTypes) > 0
        THEN /\ pc' = "sm"
             /\ documentTypes' = fetched.documentTypes
             /\ currentUrl' = MetadataUrl(smpUrl[1], participantId, fetched.documentTypes[1])
             /\ redirectCount' = 0
             /\ net' = Issue(log, "sm",
                  MetadataUrl(smpUrl[1], participantId, fetched.documentTypes[1]))
             /\ UNCHANGED <<outcome, result, endpointInfo, cache, calls>>
        ELSE /\ Classified(fetched.documentTypes, NoEndpointInfo, log)
             /\ UNCHANGED <<currentUrl, redirectCount>>
  /\ UNCHANGED <<participantId, options, smpUrl, bcBase, bcPos>>
  /\ Pooled(net')
  /\ UNCHANGED aside

\* a GET of the ServiceMetadata fetch settles
ServiceMetadataSettles(o) ==
  /\ pc = "sm"
  /\ LET step == followRedirects(currentUrl, redirectCount, o)
         log == Settle(net, ServiceMetadataClass(o))
         metadataUrl == MetadataUrl(smpUrl[1], participantId, documentTypes[1])
     IN IF step.kind = "get"
        THEN /\ currentUrl' = step.currentUrl
             /\ redirectCount' = step.redirectCount
             /\ net' = Issue(log, "sm", step.currentUrl)
             /\ UNCHANGED <<pc, outcome, result, documentTypes, endpointInfo, cache, calls>>
        ELSE /\ Classified(documentTypes, extractEndpointInfo(metadataUrl, step, o), log)
             /\ UNCHANGED <<currentUrl, redirectCount>>
  /\ UNCHANGED <<participantId, options, smpUrl, bcBase, bcPos>>
  /\ Pooled(net')
  /\ UNCHANGED aside

\* the NAPTR query of getBusinessCard settles
BusinessCardDnsSettles(o) ==
  /\ pc = "bcDns"
  /\ LET r == lookupSMP(HashOf(participantId), o)
         log == Settle(net, DnsClass(o))
         first == [scheme |-> "https", idx |-> 1]
     IN IF r.threw \/ r.smpUrl = None
        THEN /\ Return(WithDiagnostics(result[1], endpointInfo))
             /\ net' = log
             /\ UNCHANGED <<bcBase, bcPos>>
        ELSE /\ pc' = "bcProbe"
             /\ bcBase' = r.smpUrl[1]
             /\ bcPos' = first
             /\ net' = Issue(log, "bc", ProbeUrl(r.smpUrl[1], participantId, first))
             /\ UNCHANGED <<outcome, result>>
  /\ UNCHANGED <<participantId, options, smpUrl, currentUrl, redirectCount,
                 documentTypes, endpointInfo, cache, calls>>
  /\ Pooled(net')
  /\ UNCHANGED aside

\* a GET of the business-card probe settles
BusinessCardSettles(o) ==
  /\ pc = "bcProbe"
  /\ LET step == fetchBusinessCardXML(bcPos, o)
         log == Settle(net, ProbeClass(o))
     IN IF step.kind = "get"
        THEN /\ bcPos' = step.pos
             /\ net' = Issue(log, "bc", ProbeUrl(bcBase, participantId, step.pos))
             /\ UNCHANGED <<pc, outcome, result>>
        ELSE /\ Return(WithDiagnostics(
                  [result[1] EXCEPT !.businessEntity =
                     Some(CardEntity(participantId, step.entity))],
                  endpointInfo))
             /\ net' = log
             /\ UNCHANGED bcPos
  /\ UNCHANGED <<participantId, options, smpUrl, currentUrl, redirectCount,
                 documentTypes, endpointInfo, bcBase, cache, calls>>
  /\ Pooled(net')
  /\ UNCHANGED aside

Next ==
  \/ \E id \in ParticipantIds, opts \in ResolveOptions : Resolve(id, opts)
  \/ \E o \in DnsOutcomes : DnsSettles(o)
  \/ \E o \in ServiceGroupOutcomes : ServiceGroupSettles(o)
  \/ \E o \in ServiceMetadataOutcomes : ServiceMetadataSettles(o)
  \/ \E o \in DnsOutcomes : BusinessCardDnsSettles(o)
  \/ \E o \in BusinessCardOutcomes : BusinessCardSettles(o)

Spec == Init /\ [][Next]_vars

(* ------------------ getBusinessCard called on its own ------------------ *)

UrlHttp == <<"http://", SmpHost>>

UrlUpperCase == <<"HTTPS://", SmpHost>>

\* the NAPTR answers of this call: an SMP at an https, an http or an
\* upper-case HTTPS URL, a record of another service, or a DNS error
CardDnsOutcomes ==
  {[kind |-> "answer", code |-> "NOERROR",
    records |-> <<[service |-> Some("Meta:SMP"), order |-> Some(10),
                   preference |-> Some(10), regexp |-> Some(NaptrRegexp(u))]>>] :
     u \in {UrlHttps, UrlHttp, UrlUpperCase}}
  \cup {[kind |-> "answer", code |-> "NOERROR",
         records |-> <<[service |-> Some("E2U+sip"), order |-> Some(1),
                        preference |-> Some(1), regexp |-> Some(NaptrRegexp(UrlHttps))]>>]}
  \cup [kind : {"error"}, code : {"ENOTFOUND", "ESERVFAIL"}, records : {<<>>}]

\* a page of markup that is no business card
HtmlPage == Body("html", FALSE, <<>>, None, FALSE, NoProcesses, None)

\* what a GET of the probe can end with
CardProbeOutcomes ==
  {HttpError}
  \cup {Response(200, None, b) : b \in BusinessCardBodies \cup {NotXml, HtmlPage}}
  \cup {Response(404, None, NotXml)}

\* the kind of answer a probe request got, read off the answer
CardProbeClass(o) ==
  IF o.kind = "error" THEN "error"
  ELSE IF o.statusCode # 200 THEN "status:" \o ToString(o.statusCode)
  ELSE IF o.body.root = "" THEN "200:text"
  ELSE IF o.body.root = "BusinessCard" /\ IsSome(o.body.entityName) THEN "200:card"
  ELSE "200:markup"

\* the error a rejected call carries
Thrown(message) == [thrown |-> message]

\* getBusinessCard(participantId) is called
GetBusinessCard(id) ==
  /\ pc = "idle"
  /\ participantId' = id
  /\ IF SplitRejects(id)
     THEN /\ pc' = "done"
          /\ outcome' = "threw"
          /\ result' = Some(Thrown(<<"Invalid participant ID format">>))
          /\ net' = <<>>
     ELSE /\ pc' = "cardDns"
          /\ outcome' = "pending"
          /\ result' = None
          /\ net' = Issue(<<>>, "bcDns", QueryName(HashOf(id)))
  /\ UNCHANGED <<options, smpUrl, currentUrl, redirectCount, documentTypes,
                 endpointInfo, bcBase, bcPos, cache, calls>>
  /\ Pooled(net')
  /\ UNCHANGED aside

\* the NAPTR query of getBusinessCard settles
CardDnsSettles(o) ==
  /\ pc = "cardDns"
  /\ LET r == lookupSMP(HashOf(participantId), o)
         log == Settle(net, DnsClass(o))
         first == [scheme |-> "https", idx |-> 1]
     IN IF r.threw \/ r.smpUrl = None
        THEN /\ pc' = "done"
             /\ outcome' = "threw"
             /\ result' = Some(Thrown(IF r.threw THEN r.message
                                      ELSE <<"Participant not registered">>))
             /\ net' = log
             /\ UNCHANGED <<smpUrl, bcBase, bcPos>>
        ELSE /\ pc' = "cardProbe"
             /\ smpUrl' = r.smpUrl
             /\ bcBase' = r.smpUrl[1]
             /\ bcPos' = first
             /\ net' = Issue(log, "bc", ProbeUrl(r.smpUrl[1], participantId, first))
             /\ UNCHANGED <<outcome, result>>
  /\ UNCHANGED <<participantId, options, currentUrl, redirectCount, documentTypes,
                 endpointInfo, cache, calls>>
  /\ Pooled(net')
  /\ UNCHANGED aside

\* a GET of the probe of getBusinessCard settles
CardProbeSettles(o) ==
  /\ pc = "cardProbe"
  /\ LET step == fetchBusinessCardXML(bcPos, o)
         log == Settle(net, CardProbeClass(o))
     IN IF step.kind = "get"
        THEN /\ bcPos' = step.pos
             /\ net' = Issue(log, "bc", ProbeUrl(bcBase, participantId, step.pos))
             /\ UNCHANGED <<pc, outcome, result>>
        ELSE /\ pc' = "done"
             /\ outcome' = "returned"
             /\ result' = Some([entity |-> CardEntity(participantId, step.entity),
                                smpHostname |-> UrlHostname(bcBase)])
             /\ net' = log
             /\ UNCHANGED bcPos
  /\ UNCHANGED <<participantId, options, smpUrl, currentUrl, redirectCount,
                 documentTypes, endpointInfo, bcBase, cache, calls>>
  /\ Pooled(net')
  /\ UNCHANGED aside

\* an identifier whose value holds the separator
IdColonInValue == <<"a", ":", "a", ":", "a">>

\* identifiers getBusinessCard is called with
CardIds == ParticipantIds \cup {IdColonInValue}

CardNext ==
  \/ \E id \in CardIds : GetBusinessCard(id)
  \/ \E o \in CardDnsOutcomes : CardDnsSettles(o)
  \/ \E o \in CardProbeOutcomes : CardProbeSettles(o)

CardSpec == Init /\ [][CardNext]_vars

(* --------------------------- getEndpointUrls --------------------------- *)

\* getEndpointUrls: the endpoint built from the first endpoint of the first
\* process of the first document type
EndpointData(metadata) ==
  IF Len(metadata.documentTypes) > 0
     /\ Len(metadata.documentTypes[1].processes) > 0
     /\ Len(metadata.documentTypes[1].processes[1].endpoints) > 0
  THEN LET endpoint == metadata.documentTypes[1].processes[1].endpoints[1]
       IN Some([url |-> endpoint.endpointUrl,
                transportProfile |-> endpoint.transportProfile,
                certificate |-> endpoint.certificate])
  ELSE None

\* EndpointUrlsCatch throwing the error as it caught it
EndpointUrlsCatchBare(message) ==
  [outcome |-> "threw", result |-> Some(Thrown(message))]

\* getEndpointUrls: the outer catch throws a new Error naming the cause
EndpointUrlsCatch(message) ==
  [outcome |-> "threw",
   result |-> Some(Thrown(<<"Failed to get endpoint URLs: ">> \o message))]

\* the call rejects from its outer catch
UrlsRejected(message) ==
  /\ pc' = "done"
  /\ outcome' = EndpointUrlsCatch(message).outcome
  /\ result' = EndpointUrlsCatch(message).result

\* return { smpHostname, endpoint: endpointData }
UrlsReturned(smp, endpointData) ==
  /\ pc' = "done"
  /\ outcome' = "returned"
  /\ result' = Some([smpHostname |-> UrlHostname(smp), endpoint |-> endpointData])

\* getEndpointUrls(participantId) is called
GetEndpointUrls(id) ==
  /\ pc = "idle"
  /\ participantId' = id
  /\ IF SplitRejects(id)
     THEN /\ UrlsRejected(<<"Invalid participant ID format">>)
          /\ net' = <<>>
     ELSE /\ pc' = "urlsDns"
          /\ outcome' = "pending"
          /\ result' = None
          /\ net' = Issue(<<>>, "dns", QueryName(HashOf(id)))
  /\ UNCHANGED <<options, smpUrl, currentUrl, redirectCount, documentTypes,
                 endpointInfo, bcBase, bcPos, cache, calls>>
  /\ Pooled(net')
  /\ UNCHANGED aside

\* the NAPTR query of getEndpointUrls settles
UrlsDnsSettles(o) ==
  /\ pc = "urlsDns"
  /\ LET r == lookupSMP(HashOf(participantId), o)
         log == Settle(net, DnsClass(o))
     IN IF r.threw
        THEN /\ UrlsRejected(r.message)
             /\ net' = log
             /\ UNCHANGED <<smpUrl, currentUrl, redirectCount>>
        ELSE IF r.smpUrl = None
        THEN /\ UrlsRejected(<<"No SMP found via DNS lookup">>)
             /\ net' = log
             /\ UNCHANGED <<smpUrl, currentUrl, redirectCount>>
        ELSE /\ pc' = "urlsSg"
             /\ smpUrl' = r.smpUrl
             /\ currentUrl' = ServiceGroupUrl(r.smpUrl[1], participantId)
             /\ redirectCount' = 0
             /\ net' = Issue(log, "sg", ServiceGroupUrl(r.smpUrl[1], participantId))
             /\ UNCHANGED <<outcome, result>>
  /\ UNCHANGED <<participantId, options, documentTypes, endpointInfo, bcBase, bcPos,
                 cache, calls>>
  /\ Pooled(net')
  /\ UNCHANGED aside

\* a GET of the ServiceGroup fetch of getEndpointUrls settles
UrlsServiceGroupSettles(o) ==
  /\ pc = "urlsSg"
  /\ LET step == followRedirects(currentUrl, redirectCount, o)
         log == Settle(net, ServiceGroupClass(o))
         serviceGroup == parseServiceGroup(o.body)
     IN IF step.kind = "get"
        THEN /\ currentUrl' = step.currentUrl
             /\ redirectCount' = step.redirectCount
             /\ net' = Issue(log, "sg", step.currentUrl)
             /\ UNCHANGED <<pc, outcome, result>>
        ELSE IF step.kind = "throw"
        THEN /\ UrlsRejected(step.message)
             /\ net' = log
             /\ UNCHANGED <<currentUrl, redirectCount>>
        ELSE IF o.statusCode # 200
        THEN /\ UrlsRejected(StatusMessage(o.statusCode))
             /\ net' = log
             /\ UNCHANGED <<currentUrl, redirectCount>>
        ELSE IF serviceGroup.threw
        THEN /\ UrlsRejected(serviceGroup.message)
             /\ net' = log
             /\ UNCHANGED <<currentUrl, redirectCount>>
        ELSE IF Len(serviceGroup.serviceReferences) > 0
        THEN /\ pc' = "urlsSm"
             /\ currentUrl' = serviceGroup.serviceReferences[1]
             /\ redirectCount' = 0
             /\ net' = Issue(log, "sm", serviceGroup.serviceReferences[1])
             /\ UNCHANGED <<outcome, result>>
        ELSE /\ UrlsReturned(smpUrl[1], None)
             /\ net' = log
             /\ UNCHANGED <<currentUrl, redirectCount>>
  /\ UNCHANGED <<participantId, options, smpUrl, documentTypes, endpointInfo, bcBase,
                 bcPos, cache, calls>>
  /\ Pooled(net')
  /\ UNCHANGED aside

\* a GET of the ServiceMetadata fetch of getEndpointUrls settles
UrlsServiceMetadataSettles(o) ==
  /\ pc = "urlsSm"
  /\ LET step == followRedirects(currentUrl, redirectCount, o)
         log == Settle(net, ServiceMetadataClass(o))
         metadata == parseServiceMetadata(o.body)
     IN IF step.kind = "get"
        THEN /\ currentUrl' = step.currentUrl
             /\ redirectCount' = step.redirectCount
             /\ net' = Issue(log, "sm", step.currentUrl)
             /\ UNCHANGED <<pc, outcome, result>>
        ELSE /\ UrlsReturned(smpUrl[1],
                  IF step.kind = "throw" \/ o.statusCode # 200 \/ metadata.threw
                  THEN None ELSE EndpointData(metadata))
             /\ net' = log
             /\ UNCHANGED <<currentUrl, redirectCount>>
  /\ UNCHANGED <<participantId, options, smpUrl, documentTypes, endpointInfo, bcBase,
                 bcPos, cache, calls>>
  /\ Pooled(net')
  /\ UNCHANGED aside

\* identifiers getEndpointUrls is called with
UrlsIds == CardIds

UrlsNext ==
  \/ \E id \in UrlsIds : GetEndpointUrls(id)
  \/ \E o \in CardDnsOutcomes : UrlsDnsSettles(o)
  \/ \E o \in ServiceGroupOutcomes : UrlsServiceGroupSettles(o)
  \/ \E o \in ServiceMetadataOutcomes : UrlsServiceMetadataSettles(o)

UrlsSpec == Init /\ [][UrlsNext]_vars

(* ------------ the parser and the HTTP client over their life ----------- *)

\* The certificate parser and the HTTP client outlive a call: the parser is
\* called with one certificate after another and may be cleared, the client
\* is asked for one URL after another, and close() ends both.

\* calls made on the certificate parser before close()
MaxCalls == 4

\* the same certificate as CertGood, PEM-armoured
CertPem == <<PemBegin, "\n", "MIIGood", "\n", PemEnd>>

\* the same certificate as CertGood, its base64 text broken over two lines
CertWrapped == <<"MII", "\n", "Good">>

\* another certificate
CertOther == <<"MIIOther">>

Certificates == {CertGood, CertPem, CertWrapped, CertOther, CertBad}

UrlOtherHost == <<"https://", "smp2.example.com", "/">>

\* URLs the client is asked for
ClientUrls == {UrlHttps, UrlUpperCase, UrlHttp, UrlOtherHost}

ClientOrigins == {Origin(url) : url \in ClientUrls}

lifeVars == <<participantId, options, smpUrl, currentUrl, redirectCount,
              documentTypes, endpointInfo, result, outcome, bcBase, bcPos,
              aside>>

\* certificateParser.parse(rawCertificate)
Parse(rawCertificate) ==
  /\ pc = "idle"
  /\ Len(calls) < MaxCalls
  /\ LET parsed == CertificateParse(cache, rawCertificate, Len(calls) + 1)
     IN /\ cache' = parsed.cache
        /\ calls' = Append(calls, ParseCall(rawCertificate, parsed))
  /\ UNCHANGED <<pc, pools, poolState, net, lifeVars>>

\* one call of clearCache as its caller sees it
ClearCall(after) ==
  [op |-> "clearCache", raw |-> <<>>, info |-> None, size |-> CacheSize(after),
   at |-> now]

\* certificateParser.clearCache()
ClearCache ==
  /\ pc = "idle"
  /\ Len(calls) < MaxCalls
  /\ cache' = clearCache(cache)
  /\ calls' = Append(calls, ClearCall(clearCache(cache)))
  /\ UNCHANGED <<pc, pools, poolState, net, lifeVars>>

\* requests made on the HTTP client before close()
MaxRequests == 3

\* a request started on the pool numbered pool, not yet answered
Started(log, url, pool) ==
  Append(log, [stage |-> "get", target |-> url, settled |-> None, pool |-> pool])

\* httpClient.get(url) or head(url) is called: the pool of the origin is
\* looked up, and created when the map has none, and the request starts on
\* it; requests started earlier may still be in flight
HttpGet(url) ==
  /\ pc = "idle"
  /\ Len(net) < MaxRequests
  /\ LET got == getPool(pools, poolState, Origin(url))
     IN /\ pools' = got.pools
        /\ poolState' = got.poolState
        /\ net' = Started(net, url, got.pool)
  /\ UNCHANGED <<pc, cache, calls, lifeVars>>

\* SMPResolver.close() is called; HTTPClient.close closes the agent
Close ==
  /\ pc = "idle"
  /\ pc' = "closingPools"
  /\ UNCHANGED <<cache, calls, pools, poolState, net, lifeVars>>

\* HTTPClient.close: await pool.close(), for one pool of the map
PoolCloses(origin) ==
  /\ pc = "closingPools"
  /\ origin \in DOMAIN pools
  /\ poolState[pools[origin]].state = "open"
  /\ poolState' = [poolState EXCEPT ![pools[origin]].state = "closed"]
  /\ UNCHANGED <<pc, cache, calls, pools, net, lifeVars>>

\* HTTPClient.close leaving the map as it is
PoolsKept(map) == map

\* HTTPClient.close: this.pools.clear()
PoolsCleared(map) == <<>>

\* HTTPClient.close: the loop over the map is through, the map is cleared
HttpClientCloses ==
  /\ pc = "closingPools"
  /\ \A origin \in DOMAIN pools : poolState[pools[origin]].state = "closed"
  /\ pools' = PoolsCleared(pools)
  /\ pc' = "clearingCache"
  /\ UNCHANGED <<cache, calls, poolState, net, lifeVars>>

\* SMPResolver.close: this.certificateParser.clearCache(), and close() is
\* through
CloseCompletes ==
  /\ pc = "clearingCache"
  /\ cache' = clearCache(cache)
  /\ calls' = Append(calls, ClearCall(clearCache(cache)))
  /\ pc' = "closed"
  /\ UNCHANGED <<pools, poolState, net, lifeVars>>

LifeNext ==
  \/ \E rawCertificate \in Certificates : Parse(rawCertificate)
  \/ ClearCache
  \/ \E url \in ClientUrls : HttpGet(url)
  \/ Close
  \/ \E origin \in ClientOrigins : PoolCloses(origin)
  \/ HttpClientCloses
  \/ CloseCompletes

LifeSpec == Init /\ [][LifeNext]_vars

(* ---------------------- extractSMPUrl on its own ----------------------- *)

\* most records handed to extractSMPUrl
MaxAnswer == 2

UrlEmptyQuery == <<"https://", SmpHost, "/", EmptyQuery>>

UrlEmptyHash == <<"https://", SmpHost, EmptyHash>>

\* records beside those of NaptrRecords: one without order, records that
\* differ in order and preference and name another host, and records whose
\* URL ends in a bare '?' or '#'
MoreRecords ==
  { [service |-> Some("Meta:SMP"), order |-> None, preference |-> Some(10),
     regexp |-> Some(NaptrRegexp(UrlHttp))],
    [service |-> Some("Meta:SMP"), order |-> Some(0), preference |-> Some(5),
     regexp |-> Some(NaptrRegexp(UrlOtherHost))],
    [service |-> Some("meta:smp"), order |-> Some(5), preference |-> Some(20),
     regexp |-> Some(NaptrRegexp(UrlUpperCase))],
    [service |-> Some("Meta:SMP"), order |-> Some(10), preference |-> None,
     regexp |-> Some(NaptrRegexp(UrlHttp))],
    [service |-> Some("Meta:SMP"), order |-> Some(10), preference |-> Some(10),
     regexp |-> Some(NaptrRegexp(UrlEmptyQuery))],
    [service |-> Some("Meta:SMP"), order |-> Some(10), preference |-> Some(10),
     regexp |-> Some(NaptrRegexp(UrlEmptyHash))],
    [service |-> Some("Meta:SMP"), order |-> Some(10), preference |-> Some(10),
     regexp |-> Some(NaptrRegexp(UrlWithUser))] }

ExtractRecords == NaptrRecords \cup MoreRecords

naptrVars == <<pc, participantId, options, smpUrl, currentUrl, redirectCount,
               documentTypes, endpointInfo, result, outcome, net, bcBase, bcPos,
               cache, calls, pools, poolState, elapsed, other, answers, now,
               encoder>>

\* naptrResolver.extractSMPUrl(answer) is called and returns
ExtractSMPUrl(answer) ==
  /\ records' = answer
  /\ extracted' = Some(extractSMPUrl(answer))
  /\ UNCHANGED naptrVars

NaptrNext == \E answer \in SeqUpTo(ExtractRecords, MaxAnswer) : ExtractSMPUrl(answer)

NaptrSpec == Init /\ [][NaptrNext]_vars

(* --------------------- resolve called with a timeout ------------------- *)

\* values of options.timeout, in milliseconds
Timeouts == {1000}

\* ResolveOptions with a timeout; the business card is not asked for
TimedOptions ==
  [fetchDocumentTypes : BOOLEAN, includeBusinessCard : {FALSE},
   parseCertificate : BOOLEAN, timeout : {Some(t) : t \in Timeouts}]

\* the identifier of the timed calls
TimedIds == {<<"a", ":", "a">>}

\* options.timeout milliseconds have passed since resolve was called, the
\* call still running.  Nothing in resolve reads options.timeout, no timer
\* is set and no signal is handed on: only the time passes.
TimeoutElapses ==
  /\ pc \notin {"idle", "done"}
  /\ IsSome(options.timeout)
  /\ elapsed = None
  /\ elapsed' = Some([requests |-> Len(net), parses |-> Len(calls), cache |-> cache])
  /\ UNCHANGED <<pc, participantId, options, smpUrl, currentUrl, redirectCount,
                 documentTypes, endpointInfo, result, outcome, net, bcBase, bcPos,
                 cache, calls, pools, poolState, records, extracted, other,
                 answers, now, encoder>>

TimedNext ==
  \/ \E id \in TimedIds, opts \in TimedOptions : Resolve(id, opts)
  \/ \E o \in DnsOutcomes : DnsSettles(o)
  \/ \E o \in ServiceGroupOutcomes : ServiceGroupSettles(o)
  \/ \E o \in ServiceMetadataOutcomes : ServiceMetadataSettles(o)
  \/ TimeoutElapses

TimedSpec == Init /\ [][TimedNext]_vars

(* ------------------ two resolve calls on one resolver ------------------ *)

\* Two resolve calls are in flight on one SMPResolver.  One runs until its
\* next await; there the other may go on.  Each call has its own arguments
\* and local variables; the certificate cache and the pools of the HTTP
\* client belong to the resolver and are shared.

\* the identifier and the options of the two calls
PairIds == {<<"a", ":", "a">>}

PairOptions ==
  [fetchDocumentTypes : {TRUE}, includeBusinessCard : {FALSE},
   parseCertificate : BOOLEAN, timeout : {None}]

PairDnsOutcomes ==
  { [kind |-> "answer", code |-> "NOERROR",
     records |-> <<[service |-> Some("Meta:SMP"), order |-> Some(10),
                    preference |-> Some(10),
                    regexp |-> Some(NaptrRegexp(UrlHttps))]>>],
    [kind |-> "error", code |-> "ESERVFAIL", records |-> <<>>] }

PairServiceGroupOutcomes ==
  { Response(200, None,
             Body("ServiceGroup", TRUE, <<Some(HrefInvoice)>>, None, FALSE,
                  NoProcesses, None)),
    Response(404, None, NotXml) }

\* an endpoint carrying the certificate in the form given
EndpointWith(certificate) ==
  [transportProfile |-> Some("peppol-transport-as4-v2_0"),
   endpointUri |-> Some("https://as4.example.com/as4"), address |-> None,
   certificate |-> Some(certificate),
   serviceActivationDate |-> None, serviceExpirationDate |-> None]

\* ServiceMetadata answers whose endpoint carries one certificate on one
\* line, the same certificate broken over two lines, or no certificate
PairServiceMetadataOutcomes ==
  { Response(200, None,
             Body("ServiceMetadata", FALSE, <<>>, None, TRUE,
                  <<[processIdentifier |-> TRUE,
                     endpoints |-> <<EndpointWith(certificate)>>]>>, None)) :
      certificate \in {CertGood, CertWrapped, CertBad} }
  \cup {HttpError}

\* the running call waits at an await and the other call goes on
Switch ==
  /\ pc \notin {"idle"}
  /\ other.pc # "done"
  /\ other' = Frame
  /\ pc' = other.pc
  /\ participantId' = other.participantId
  /\ options' = other.options
  /\ smpUrl' = other.smpUrl
  /\ currentUrl' = other.currentUrl
  /\ redirectCount' = other.redirectCount
  /\ documentTypes' = other.documentTypes
  /\ endpointInfo' = other.endpointInfo
  /\ result' = other.result
  /\ outcome' = other.outcome
  /\ net' = other.net
  /\ bcBase' = other.bcBase
  /\ bcPos' = other.bcPos
  /\ UNCHANGED <<cache, calls, pools, poolState, records, extracted, elapsed,
                 answers, now, encoder>>

PairNext ==
  \/ \E id \in PairIds, opts \in PairOptions : Resolve(id, opts)
  \/ \E o \in PairDnsOutcomes : DnsSettles(o)
  \/ \E o \in PairServiceGroupOutcomes : ServiceGroupSettles(o)
  \/ \E o \in PairServiceMetadataOutcomes : ServiceMetadataSettles(o)
  \/ Switch

PairSpec == Init /\ [][PairNext]_vars

(* ------------- one resolve call, with the answers on record ------------ *)

\* One resolve call against a DNS server and an SMP whose answers are kept:
\* answers[i] is what came back for the request net[i].  The ServiceGroup
\* carries up to ManyRefs references, the ServiceMetadata up to ManyProcs
\* processes of up to ManyEndpoints endpoints each.

ManyRefs == 2

ManyProcs == 2

ManyEndpoints == 2

AnswerIds == {<<"a", ":", "a">>}

AnswerOptions ==
  [fetchDocumentTypes : BOOLEAN, includeBusinessCard : {FALSE},
   parseCertificate : {TRUE}, timeout : {None}]

AnswerDnsOutcomes == PairDnsOutcomes

\* the ServiceMetadataReference elements of a ServiceGroup: hrefs naming a
\* document type, an href without /services/, an element without href, an
\* href with a malformed escape
AnswerRefs ==
  SeqUpTo({Some(HrefInvoice), Some(HrefCreditNote), Some(HrefNoServices)}, ManyRefs)
  \cup {<<None>>, <<None, Some(HrefInvoice)>>, <<Some(HrefBadEscape)>>}

AnswerServiceGroupOutcomes ==
  {Response(200, None, Body("ServiceGroup", TRUE, refs, None, FALSE, NoProcesses, None)) :
     refs \in AnswerRefs}
  \cup {Response(200, None, NotXml), Response(404, None, NotXml), HttpError}

\* Endpoint elements of two transport profiles, and one the parser drops
AnswerEndpointElements ==
  { [transportProfile |-> Some("busdox-transport-as2-ver1p0"),
     endpointUri |-> Some("https://as2.example.com/as2"), address |-> None,
     certificate |-> None,
     serviceActivationDate |-> Some(DateText),
     serviceExpirationDate |-> Some(NoDateText)],
    [transportProfile |-> Some("peppol-transport-as4-v2_0"),
     endpointUri |-> Some("https://as4.example.com/as4"), address |-> None,
     certificate |-> Some(CertGood),
     serviceActivationDate |-> Some(NoDateText), serviceExpirationDate |-> None],
    [transportProfile |-> None,
     endpointUri |-> Some("https://as4.example.com/as4"), address |-> None,
     certificate |-> Some(CertGood),
     serviceActivationDate |-> None, serviceExpirationDate |-> None] }

AnswerProcessElements ==
  [processIdentifier : BOOLEAN,
   endpoints : SeqUpTo(AnswerEndpointElements, ManyEndpoints)]

AnswerServiceMetadataOutcomes ==
  {Response(200, None,
            Body("ServiceMetadata", FALSE, <<>>, None, TRUE, procs, None)) :
     procs \in SeqUpTo(AnswerProcessElements, ManyProcs)}
  \cup {Response(200, None,
          Body("ServiceMetadata", FALSE, <<>>, Some(RedirectTarget), FALSE, NoProcesses, None)),
        Response(200, None, NotXml), Response(500, None, NotXml), HttpError}

\* the request in flight has been answered, the answer not yet handled
Arrived == answers # <<>> /\ Len(answers) = Len(net)

\* the server sends its answer to the request in flight
Responds(stage, o) ==
  /\ pc = stage
  /\ Len(answers) + 1 = Len(net)
  /\ answers' = Append(answers, o)
  /\ UNCHANGED <<pc, participantId, options, smpUrl, currentUrl, redirectCount,
                 documentTypes, endpointInfo, result, outcome, net, bcBase, bcPos,
                 cache, calls, pools, poolState, records, extracted, elapsed, other,
                 now, encoder>>

\* the awaited answer reaches the resolver
DnsAnswerArrives == Arrived /\ DnsSettles(answers[Len(answers)])

ServiceGroupAnswerArrives == Arrived /\ ServiceGroupSettles(answers[Len(answers)])

ServiceMetadataAnswerArrives == Arrived /\ ServiceMetadataSettles(answers[Len(answers)])

DnsResponds(o) == Responds("dns", o)

ServiceGroupResponds(o) == Responds("sg", o)

ServiceMetadataResponds(o) == Responds("sm", o)

AnswerNext ==
  \/ \E id \in AnswerIds, opts \in AnswerOptions : Resolve(id, opts)
  \/ \E o \in AnswerDnsOutcomes : DnsResponds(o)
  \/ \E o \in AnswerServiceGroupOutcomes : ServiceGroupResponds(o)
  \/ \E o \in AnswerServiceMetadataOutcomes : ServiceMetadataResponds(o)
  \/ DnsAnswerArrives
  \/ ServiceGroupAnswerArrives
  \/ ServiceMetadataAnswerArrives

AnswerSpec == Init /\ [][AnswerNext]_vars

(* ------------- one resolve call through all of its stages -------------- *)

\* One resolve call for one identifier under every combination of options,
\* against an SMP named in DNS with an https, an http or an upper-case
\* HTTPS URL, with a few answers of each kind at every stage.

CourseIds == {<<"a", ":", "a">>}

CourseDnsOutcomes == CardDnsOutcomes

CourseServiceGroupOutcomes ==
  {Response(200, None, Body("ServiceGroup", TRUE, refs, None, FALSE, NoProcesses, None)) :
     refs \in {<<>>, <<Some(HrefInvoice)>>, <<Some(HrefCreditNote), Some(HrefInvoice)>>}}
  \cup {Response(404, None, NotXml), Response(500, None, NotXml), HttpError}
  \cup RedirectResponses

CourseServiceMetadataOutcomes ==
  {Response(200, None,
            Body("ServiceMetadata", FALSE, <<>>, None, TRUE,
                 <<[processIdentifier |-> TRUE,
                    endpoints |-> <<EndpointWith(CertGood)>>]>>, None)),
   Response(200, None,
            Body("ServiceMetadata", FALSE, <<>>, Some(HrefInvoice), FALSE, NoProcesses, None)),
   Response(200, None, NotXml), Response(500, None, NotXml), HttpError}
  \cup RedirectResponses

CourseNext ==
  \/ \E id \in CourseIds, opts \in ResolveOptions : Resolve(id, opts)
  \/ \E o \in CourseDnsOutcomes : DnsSettles(o)
  \/ \E o \in CourseServiceGroupOutcomes : ServiceGroupSettles(o)
  \/ \E o \in CourseServiceMetadataOutcomes : ServiceMetadataSettles(o)
  \/ \E o \in CourseDnsOutcomes : BusinessCardDnsSettles(o)
  \/ \E o \in BusinessCardOutcomes : BusinessCardSettles(o)

CourseSpec == Init /\ [][CourseNext]_vars

(* ------------- one resolve call whose requests all settle -------------- *)

\* One resolve call with the business card asked for, against answers that
\* make it take the longest way: redirects at both fetches, a probe whose
\* GETs are answered 404 or fail.  No DNS query and no GET stays in flight
\* for ever: each ends with a response, an error or its timeout.

FairOptions ==
  [fetchDocumentTypes : {TRUE}, includeBusinessCard : {TRUE},
   parseCertificate : {FALSE}, timeout : {None}]

FairServiceGroupOutcomes ==
  {Response(200, None,
            Body("ServiceGroup", TRUE, <<Some(HrefInvoice)>>, None, FALSE,
                 NoProcesses, None)),
   Response(302, Some(RedirectTarget), NotXml), HttpError}

FairServiceMetadataOutcomes ==
  {Response(200, None,
            Body("ServiceMetadata", FALSE, <<>>, None, TRUE,
                 <<[processIdentifier |-> TRUE,
                    endpoints |-> <<EndpointWith(CertGood)>>]>>, None)),
   Response(302, Some(RedirectTarget), NotXml)}

FairBusinessCardOutcomes == {Response(404, None, NotXml), HttpError}

\* most requests a log is looked through for
LogLimit == 16

\* request n is the last one made and has not settled
InFlight(n) == Len(net) = n /\ net[n].settled = None

FairNext ==
  \/ \E id \in CourseIds, opts \in FairOptions : Resolve(id, opts)
  \/ \E o \in PairDnsOutcomes : DnsSettles(o)
  \/ \E o \in FairServiceGroupOutcomes : ServiceGroupSettles(o)
  \/ \E o \in FairServiceMetadataOutcomes : ServiceMetadataSettles(o)
  \/ \E o \in PairDnsOutcomes : BusinessCardDnsSettles(o)
  \/ \E o \in FairBusinessCardOutcomes : BusinessCardSettles(o)

\* no request stays in flight for ever
FairSpec ==
  Init /\ [][FairNext]_vars /\ \A n \in 1..LogLimit : []<>~InFlight(n)

(* ----------------- the certificate parser and the clock ---------------- *)

\* Calls of parse and clearCache on one CertificateParser while the wall
\* clock goes on, past the notAfter of the certificates parsed.

MaxClock == 2

\* time passes
Tick ==
  /\ pc = "idle"
  /\ now < MaxClock
  /\ now' = now + 1
  /\ UNCHANGED <<pc, participantId, options, smpUrl, currentUrl, redirectCount,
                 documentTypes, endpointInfo, result, outcome, net, bcBase, bcPos,
                 cache, calls, pools, poolState, records, extracted, elapsed, other,
                 answers, encoder>>

ClockNext ==
  \/ \E rawCertificate \in {CertGood, CertWrapped, CertOther, CertBad} :
       Parse(rawCertificate)
  \/ ClearCache
  \/ Tick

ClockSpec == Init /\ [][ClockNext]_vars

(* --------------------------- base32Encode ------------------------------ *)

\* base32Encode(buffer) run byte by byte.  `value` is a JavaScript number
\* used with << and >>>, that is a 32-bit word; it is kept as its two
\* 16-bit halves.

\* longest buffer: the 32 bytes of a SHA-256 digest
MaxBytes == 32

\* 'ABCDEFGHIJKLMNOPQRSTUVWXYZ234567'
Alphabet ==
  <<"A", "B", "C", "D", "E", "F", "G", "H", "I", "J", "K", "L", "M", "N", "O",
    "P", "Q", "R", "S", "T", "U", "V", "W", "X", "Y", "Z", "2", "3", "4", "5",
    "6", "7">>

\* the same after toLowerCase
LowerAlphabet ==
  <<"a", "b", "c", "d", "e", "f", "g", "h", "i", "j", "k", "l", "m", "n", "o",
    "p", "q", "r", "s", "t", "u", "v", "w", "x", "y", "z", "2", "3", "4", "5",
    "6", "7">>

\* 2 to the power n
RECURSIVE Pow2(_)
Pow2(n) == IF n = 0 THEN 1 ELSE 2 * Pow2(n - 1)

\* bit k of a 32-bit word, 0 outside the word
WordBit(word, k) ==
  IF k < 0 \/ k > 31 THEN 0
  ELSE IF k < 16 THEN (word.lo \div Pow2(k)) % 2
  ELSE (word.hi \div Pow2(k - 16)) % 2

\* (value << 8) | byte on an accumulator of 8 bits
ShiftInByteWide(word, byte) == [hi |-> 0, lo |-> byte]

\* (value << 8) | byte: the top 8 bits of the word are lost
ShiftIn(word, byte) ==
  [hi |-> ((word.hi % 256) * 256) + (word.lo \div 256),
   lo |-> ((word.lo % 256) * 256) + byte]

\* (value >>> shift) & 0x1f
ShiftedRightLow5(word, shift) ==
  WordBit(word, shift) + 2 * WordBit(word, shift + 1) + 4 * WordBit(word, shift + 2)
  + 8 * WordBit(word, shift + 3) + 16 * WordBit(word, shift + 4)

\* (value << shift) & 0x1f
ShiftedLeftLow5(word, shift) ==
  WordBit(word, 0 - shift) + 2 * WordBit(word, 1 - shift) + 4 * WordBit(word, 2 - shift)
  + 8 * WordBit(word, 3 - shift) + 16 * WordBit(word, 4 - shift)

\* the inner while loop: characters are taken while bits >= 5
RECURSIVE Drain(_, _, _)
Drain(word, bits, text) ==
  IF bits >= 5
  THEN Drain(word, bits - 5,
             Append(text, Alphabet[ShiftedRightLow5(word, bits - 5) + 1]))
  ELSE [bits |-> bits, result |-> text]

\* "Add padding"
RECURSIVE Padded(_)
Padded(text) == IF Len(text) % 8 # 0 THEN Padded(Append(text, "=")) ELSE text

\* the byte at place i of the buffers tried: all zero, all ones, top bit
\* only, alternating, and two mixed sequences
ByteOf(pattern, i) ==
  IF pattern = 1 THEN 0
  ELSE IF pattern = 2 THEN 255
  ELSE IF pattern = 3 THEN 128
  ELSE IF pattern = 4 THEN (IF i % 2 = 1 THEN 85 ELSE 170)
  ELSE IF pattern = 5 THEN (i * 37) % 256
  ELSE (i * i * 7 + 13) % 256

BytePatterns == 1..6

Buffers ==
  {[i \in 1..n |-> ByteOf(pattern, i)] : n \in 0..MaxBytes, pattern \in BytePatterns}

\* base32Encode(buffer) is called
Encode(buffer) ==
  /\ encoder.phase = "idle"
  /\ pc = "idle"
  /\ encoder' = [phase |-> "loop", buffer |-> buffer, i |-> 0,
                 value |-> [hi |-> 0, lo |-> 0], bits |-> 0, result |-> <<>>]
  /\ UNCHANGED <<pc, participantId, options, smpUrl, currentUrl, redirectCount,
                 documentTypes, endpointInfo, result, outcome, net, bcBase, bcPos,
                 cache, calls, pools, poolState, records, extracted, elapsed, other,
                 answers, now>>

\* one turn of the for loop
EncodeByte ==
  /\ encoder.phase = "loop"
  /\ encoder.i < Len(encoder.buffer)
  /\ LET value == ShiftIn(encoder.value, encoder.buffer[encoder.i + 1])
         drained == Drain(value, encoder.bits + 8, encoder.result)
     IN encoder' = [encoder EXCEPT !.i = encoder.i + 1, !.value = value,
                                   !.bits = drained.bits, !.result = drained.result]
  /\ UNCHANGED <<pc, participantId, options, smpUrl, currentUrl, redirectCount,
                 documentTypes, endpointInfo, result, outcome, net, bcBase, bcPos,
                 cache, calls, pools, poolState, records, extracted, elapsed, other,
                 answers, now>>

\* after the loop: the remaining bits, the padding, return
EncodeReturns ==
  /\ encoder.phase = "loop"
  /\ encoder.i = Len(encoder.buffer)
  /\ LET last == IF encoder.bits > 0
                 THEN Append(encoder.result,
                        Alphabet[ShiftedLeftLow5(encoder.value, 5 - encoder.bits) + 1])
                 ELSE encoder.result
     IN encoder' = [encoder EXCEPT !.phase = "done", !.bits = 0,
                                   !.result = Padded(last)]
  /\ UNCHANGED <<pc, participantId, options, smpUrl, currentUrl, redirectCount,
                 documentTypes, endpointInfo, result, outcome, net, bcBase, bcPos,
                 cache, calls, pools, poolState, records, extracted, elapsed, other,
                 answers, now>>

Base32Next ==
  \/ \E buffer \in Buffers : Encode(buffer)
  \/ EncodeByte
  \/ EncodeReturns

Base32Spec == Init /\ [][Base32Next]_vars

(* ------------------------------ properties ----------------------------- *)

Done == pc = "done"

Returned == pc = "done" /\ outcome = "returned" /\ IsSome(result)

\* the requests of a stage, as positions of the log
RequestsOf(stage) == {i \in DOMAIN net : net[i].stage = stage}

HttpRequests == RequestsOf("sg") \cup RequestsOf("sm") \cup RequestsOf("bc")

DnsQueries == RequestsOf("dns") \cup RequestsOf("bcDns")

\* the kind of answer the last request of a stage got; "" when the stage
\* was not entered or its last request is still pending
FinalAnswer(stage) ==
  IF RequestsOf(stage) = {} THEN ""
  ELSE LET last == CHOOSE i \in RequestsOf(stage) : \A j \in RequestsOf(stage) : j <= i
       IN IF IsSome(net[last].settled) THEN net[last].settled[1] ELSE ""

AllOptions ==
  options.fetchDocumentTypes /\ options.includeBusinessCard /\ options.parseCertificate

\* C1: resolve never throws: every finished call has returned a result that
\* carries participantId, isRegistered, registrationStatus and
\* hasActiveEndpoints, whatever the input and whatever DNS, HTTP, XML and
\* certificate parsing answered.
C1_ResolveNeverThrows ==
  /\ outcome # "threw"
  /\ Done =>
       /\ outcome = "returned"
       /\ IsSome(result)
       /\ result[1].participantId = participantId
       /\ result[1].isRegistered \in BOOLEAN
       /\ result[1].registrationStatus \in {"unregistered", "parked", "active"}
       /\ result[1].hasActiveEndpoints \in BOOLEAN

\* C1 witness: a call that met a transport error on the ServiceGroup fetch
\* has returned
C1_Witness ==
  Returned /\ FinalAnswer("sg") = "error"

\* C2: in every result, isRegistered is true exactly when registrationStatus
\* is not 'unregistered'.
C2_RegisteredIffNotUnregistered ==
  Returned => (result[1].isRegistered <=> result[1].registrationStatus # "unregistered")

\* C2 witness: a result that reports DNS absence
C2_Witness ==
  Returned /\ FinalAnswer("dns") = "nxdomain" /\ ~result[1].isRegistered

\* C3: hasActiveEndpoints equals (registrationStatus = 'active'); both hold
\* exactly when an endpoint was selected from the fetched ServiceMetadata and
\* the ServiceGroup yielded at least one document type; every other
\* registered result is 'parked'.
C3_ActiveIffEndpointAndDocumentTypes ==
  Returned =>
    /\ result[1].hasActiveEndpoints <=> result[1].registrationStatus = "active"
    /\ result[1].registrationStatus = "active" <=>
         (IsSome(endpointInfo.endpoint) /\ Len(documentTypes) > 0)
    /\ (result[1].isRegistered /\ result[1].registrationStatus # "active")
         => result[1].registrationStatus = "parked"

\* C3 witness: an active result, and the metadata fetch behind it
C3_Witness ==
  Returned /\ result[1].registrationStatus = "active"
  /\ FinalAnswer("sm") = "200:metadata"

\* C4: with fetchDocumentTypes requested, hasActiveEndpoints implies that the
\* result has an endpoint and a non-empty documentTypes list.
C4_ActiveHasEndpointAndDocumentTypes ==
  (Returned /\ options.fetchDocumentTypes /\ result[1].hasActiveEndpoints) =>
    /\ IsSome(result[1].endpoint)
    /\ IsSome(result[1].documentTypes)
    /\ Len(result[1].documentTypes[1]) > 0

\* C4 witness: an active result of a call that asked for document types only
C4_Witness ==
  Returned /\ options.fetchDocumentTypes /\ ~options.parseCertificate
  /\ result[1].hasActiveEndpoints

\* C5: a result with status 'unregistered' has no endpoint, no
\* certificateInfo and no businessEntity, whatever the options and also when
\* the failure came after an earlier stage had produced data.
C5_UnregisteredCarriesNoData ==
  (Returned /\ result[1].registrationStatus = "unregistered") =>
    /\ result[1].endpoint = None
    /\ result[1].certificateInfo = None
    /\ result[1].businessEntity = None

\* C5 witness: all options requested, the SMP URL found and a ServiceGroup
\* with references received, and the call still ends unregistered
C5_Witness ==
  Returned /\ AllOptions /\ IsSome(smpUrl)
  /\ FinalAnswer("sg") = "200:references"
  /\ result[1].registrationStatus = "unregistered"

\* C6: when the identifier canonicalizer fails on the input (no separator,
\* empty scheme or value, scheme not alphanumeric, value no DNS label), the
\* result is 'unregistered' with a non-empty error and neither a DNS query
\* nor an HTTP request was issued.
C6_InvalidIdentifierNoNetwork ==
  CanonicalizerFails(participantId) =>
    /\ net = <<>>
    /\ Returned =>
         /\ result[1].registrationStatus = "unregistered"
         /\ IsSome(result[1].error)
         /\ result[1].error[1] # <<>>

C8_ServiceGroup404Parked ==
  (Done /\ FinalAnswer("sg") = "status:404") =>
    /\ Returned
    /\ result[1].isRegistered
    /\ result[1].registrationStatus = "parked"
    /\ ~result[1].hasActiveEndpoints
    /\ result[1].error = None
    /\ RequestsOf("sm") = {}

\* C8 witness: a 404 received after one followed redirect
C8_Witness ==
  Returned /\ FinalAnswer("sg") = "status:404" /\ Cardinality(RequestsOf("sg")) = 2

\* the ways a ServiceGroup fetch fails other than by 404: a transport error
\* or timeout, another non-200 status, a redirect without Location, a
\* redirect after the one permitted, a body that is no ServiceGroup
ServiceGroupFailures ==
  {"error", "status:500", "redirectNoLocation", "redirect", "200:malformed"}

\* C9: when the ServiceGroup fetch fails other than by 404, the result is
\* 'unregistered' with a non-empty error, and nothing follows: no
\* ServiceMetadata request, no certificate parse, no business-card probe.
C9_ServiceGroupFailureTerminal ==
  (Done /\ FinalAnswer("sg") \in ServiceGroupFailures) =>
    /\ Returned
    /\ result[1].registrationStatus = "unregistered"
    /\ IsSome(result[1].error)
    /\ result[1].error[1] # <<>>
    /\ RequestsOf("sm") = {}
    /\ RequestsOf("bcDns") = {}
    /\ RequestsOf("bc") = {}
    /\ cache = {}

\* C10: when the ServiceGroup parses with an empty reference collection, the
\* result is registered, 'parked', without active endpoints and without
\* endpoint, and no ServiceMetadata request was issued.
C10_EmptyServiceGroupParked ==
  (Done /\ FinalAnswer("sg") = "200:empty") =>
    /\ Returned
    /\ result[1].isRegistered
    /\ result[1].registrationStatus = "parked"
    /\ ~result[1].hasActiveEndpoints
    /\ result[1].endpoint = None
    /\ RequestsOf("sm") = {}

\* C10 witness: an empty ServiceGroup answered a call that asked for
\* document types
C10_Witness ==
  Returned /\ FinalAnswer("sg") = "200:empty" /\ options.fetchDocumentTypes
  /\ result[1].documentTypes = Some(<<>>)

\* the URL extractEndpointInfo asks for: the first document type's metadata
AttemptedMetadataUrl == MetadataUrl(smpUrl[1], participantId, documentTypes[1])

\* the smpErrors entries of the result
SmpErrorsOf(res) ==
  IF IsSome(res.diagnostics)
  THEN {res.diagnostics[1][i] : i \in DOMAIN res.diagnostics[1]}
  ELSE {}

\* C11: when the ServiceGroup yielded a document type and the ServiceMetadata
\* fetch fails (non-200, network, timeout or redirect error, XML parse
\* error, or a 200 document without an extractable endpoint), the result is
\* registered, 'parked', without error, and diagnostics.smpErrors holds an
\* entry {url, statusCode, message} for the attempted metadata URL.
C11_MetadataFailureParkedWithDiagnostic ==
  (Done /\ RequestsOf("sm") # {} /\ endpointInfo.endpoint = None) =>
    /\ Returned
    /\ result[1].isRegistered
    /\ result[1].registrationStatus = "parked"
    /\ result[1].error = None
    /\ \E e \in SmpErrorsOf(result[1]) : e.url = AttemptedMetadataUrl

\* C12: in every smpErrors entry, statusCode is the HTTP status of the
\* response received for the metadata URL, and it is 0 only when no HTTP
\* response was received (a transport-level failure).
C12_StatusCodeZeroOnlyTransport ==
  Returned =>
    \A e \in SmpErrorsOf(result[1]) :
      /\ e.statusCode = 0 => FinalAnswer("sm") = "error"
      /\ FinalAnswer("sm") = "status:404" => e.statusCode = 404
      /\ FinalAnswer("sm") = "status:500" => e.statusCode = 500

(* the probe, as the requests it issued *)

\* the requests of the probe, in the order issued
ProbeRequests == SelectSeq(net, LAMBDA e : e.stage = "bc")

IsHttpsUrl(url) == url[1] \in {"https://", "HTTPS://"}

IsHttpUrl(url) == url[1] = "http://"

\* whether url ends with the path of pattern i
EndsWithPattern(url, i) ==
  LET path == Patterns(participantId)[i]
  IN Len(url) > Len(path) /\ SubSeq(url, Len(url) - Len(path) + 1, Len(url)) = path

\* which of the five patterns a requested URL is
PatternIndex(url) == CHOOSE i \in 1..5 : EndsWithPattern(url, i)

\* C13: one business-card probe issues at most 10 requests: at most 5 HTTPS
\* requests in pattern order 1..5, all before any HTTP request, then at most
\* 5 HTTP requests in the same order; no URL is requested twice.
C13_ProbeAtMostTenOrdered ==
  LET q == ProbeRequests
  IN /\ Len(q) <= 10
     /\ Cardinality({i \in DOMAIN q : IsHttpsUrl(q[i].target)}) <= 5
     /\ Cardinality({i \in DOMAIN q : IsHttpUrl(q[i].target)}) <= 5
     /\ \A i \in DOMAIN q :
          /\ IsHttpsUrl(q[i].target) \/ IsHttpUrl(q[i].target)
          /\ \E k \in 1..5 : EndsWithPattern(q[i].target, k)
     /\ \A i, j \in DOMAIN q : i < j =>
          /\ IsHttpUrl(q[i].target) => IsHttpUrl(q[j].target)
          /\ IsHttpsUrl(q[i].target) = IsHttpsUrl(q[j].target)
               => PatternIndex(q[i].target) < PatternIndex(q[j].target)
          /\ q[i].target # q[j].target

\* C14: in the probe, the first transport-level failure on HTTPS makes the
\* next request the first HTTP pattern; the first on HTTP ends the probe with
\* no card and no further request; a status response that is no usable 200
\* skips nothing: the next pattern of the same scheme follows.
C14_SkipExactlyOnTransportFailure ==
  LET q == ProbeRequests
  IN \A i \in DOMAIN q : IsSome(q[i].settled) =>
       /\ (q[i].settled[1] = "error" /\ IsHttpsUrl(q[i].target)) =>
            /\ i < Len(q)
            /\ IsHttpUrl(q[i + 1].target)
            /\ PatternIndex(q[i + 1].target) = 1
       /\ (q[i].settled[1] = "error" /\ IsHttpUrl(q[i].target)) =>
            /\ i = Len(q)
            /\ Returned
            /\ result[1].entity = CardEntity(participantId, None)
       /\ (q[i].settled[1] \in {"status:404", "200:text"}
           /\ PatternIndex(q[i].target) < 5) =>
            /\ i < Len(q)
            /\ IsHttpsUrl(q[i + 1].target) = IsHttpsUrl(q[i].target)
            /\ PatternIndex(q[i + 1].target) = PatternIndex(q[i].target) + 1

\* C15: a 200 response whose body starts with '<' ends the probe only if it
\* holds a business entity; a 200 response without one, or whose body is no
\* XML, is followed by a request for the next pattern.
C15_OnlyParsedCardEndsProbe ==
  LET q == ProbeRequests
  IN \A i \in DOMAIN q :
       (IsSome(q[i].settled) /\ q[i].settled[1] \in {"200:markup", "200:text"}
        /\ PatternIndex(q[i].target) < 5) =>
         /\ i < Len(q)
         /\ PatternIndex(q[i + 1].target) = PatternIndex(q[i].target) + 1

\* the fields of a result the business card has no part in
CoreFields(res) ==
  <<res.isRegistered, res.registrationStatus, res.hasActiveEndpoints, res.endpoint,
    res.error>>

\* a probe request was answered with a business card
CardObtained == \E i \in RequestsOf("bc") : net[i].settled = Some("card")

\* C16: with includeBusinessCard requested, no outcome of the probe changes
\* isRegistered, registrationStatus, hasActiveEndpoints, endpoint or error
\* of the result, and whenever the probe obtains no business card the
\* businessEntity field is absent.
C16_ProbeNeverChangesResult ==
  (Returned /\ options.includeBusinessCard /\ result[1].isRegistered) =>
    /\ CoreFields(result[1]) =
         CoreFields(BuildResult(participantId, options, smpUrl[1], endpointInfo,
                                documentTypes))
    /\ ~CardObtained => result[1].businessEntity = None

\* the stages that fetch through followRedirects
RedirectStages == {"sg", "sm"}

ThreeXX == {"redirect", "redirectNoLocation"}

\* the errors followRedirects raises itself
IsRedirectError(message) ==
  /\ message # <<>>
  /\ message[1] \in {"Redirect response missing Location header: ",
                     "Maximum redirects ("}

\* C17: followRedirects (maxRedirects 1) issues at most 2 GETs per call and
\* returns only a non-3xx response, with redirectCount 0 or 1; a 3xx without
\* Location, and a 3xx after one followed redirect, end the call with an
\* error and no further request.
C17_AtMostOneRedirect ==
  /\ redirectCount \in {0, 1}
  /\ \A s \in RedirectStages :
       /\ Cardinality(RequestsOf(s)) <= 2
       /\ \A i, j \in RequestsOf(s) :
            i < j => net[i].settled = Some("redirect")
       /\ \A i \in RequestsOf(s) :
            (net[i].settled = Some("redirectNoLocation")
             \/ (net[i].settled = Some("redirect") /\ \E h \in RequestsOf(s) : h < i))
            => \A j \in RequestsOf(s) : j <= i
  /\ RequestsOf("sm") # {} => FinalAnswer("sg") = "200:references"
  /\ IsSome(endpointInfo.endpoint) => FinalAnswer("sm") = "200:metadata"
  /\ (Done /\ FinalAnswer("sg") \in ThreeXX) =>
       /\ documentTypes = <<>> /\ RequestsOf("sm") = {}
       /\ (Returned /\ IsSome(result[1].error)) => IsRedirectError(result[1].error[1])
  /\ (Done /\ FinalAnswer("sm") \in ThreeXX) =>
       /\ endpointInfo.endpoint = None
       /\ \E e \in SmpErrorsOf(result[1]) : IsRedirectError(e.message)

\* C17 witness: a second 3xx after the one permitted redirect ended the
\* ServiceGroup fetch
C17_Witness ==
  Done /\ Cardinality(RequestsOf("sg")) = 2 /\ FinalAnswer("sg") = "redirect"

\* parser calls i that returned a CertificateInfo
Succeeded(i) == calls[i].op = "parse" /\ IsSome(calls[i].info)

\* no clearCache lies between call i and call j
SameEpoch(i, j) == \A k \in i..j : calls[k].op # "clearCache"

\* the parser calls made since the last clearCache
CurrentEpoch == {i \in DOMAIN calls : SameEpoch(i, Len(calls))}

\* C18: for any sequence of parse and clearCache calls, once parse(x) has
\* succeeded, every later parse(x) before the next clearCache returns the
\* identical object and leaves the cache size unchanged; and the cache
\* holds exactly one entry per distinct fingerprint parsed successfully
\* since the last clearCache.
C18_ParseIdempotentCacheExact ==
  /\ \A i, j \in DOMAIN calls :
       (i < j /\ Succeeded(i) /\ calls[j].op = "parse"
          /\ calls[j].raw = calls[i].raw /\ SameEpoch(i, j))
       => /\ calls[j].info = calls[i].info
          /\ calls[j].info[1].object = calls[i].info[1].object
          /\ calls[j].size = calls[j - 1].size
  /\ {c.fingerprint : c \in cache}
       = {computeFingerprint(calls[i].raw) : i \in {k \in CurrentEpoch : Succeeded(k)}}
  /\ CacheSize(cache)
       = Cardinality({computeFingerprint(calls[i].raw) :
                        i \in {k \in CurrentEpoch : Succeeded(k)}})

\* parse(x) succeeded, the cache was cleared, parse(x) succeeded twice more
C18_Witness ==
  /\ Len(calls) = 4
  /\ Succeeded(1) /\ calls[2].op = "clearCache" /\ Succeeded(3) /\ Succeeded(4)
  /\ calls[1].raw = CertGood /\ calls[3].raw = CertGood /\ calls[4].raw = CertGood
  /\ calls[4].info[1].object = 3
  /\ CacheSize(cache) = 1

\* C19: for every certificate string x that parse accepts, the raw field
\* of the CertificateInfo returned equals x, the string passed to that
\* call, whatever parse calls preceded it.
C19_RawIsTheArgument ==
  \A i \in DOMAIN calls :
    Succeeded(i) => calls[i].info[1].raw = calls[i].raw

\* C20: after SMPResolver.close() completes, following any sequence of
\* requests and certificate parses, every per-origin pool that was created
\* has been closed, the pool map of the HTTP client is empty, and the
\* certificate cache is empty.
C20_CloseReleasesEverything ==
  pc = "closed" =>
    /\ \A pool \in DOMAIN poolState : poolState[pool].state = "closed"
    /\ pools = <<>>
    /\ CacheSize(cache) = 0

\* close() completed on a resolver that had three pools and a cached
\* certificate
C20_Witness ==
  /\ pc = "closed"
  /\ Len(poolState) = 3
  /\ Len(calls) > 1
  /\ calls[Len(calls) - 1].op = "parse"
  /\ calls[Len(calls) - 1].size > 0

\* the place of a stage in the order DNS, ServiceGroup, ServiceMetadata,
\* business-card probe; both NAPTR lookups are the DNS stage
StageRank(stage) ==
  IF stage \in {"dns", "bcDns"} THEN 1
  ELSE IF stage = "sg" THEN 2
  ELSE IF stage = "sm" THEN 3
  ELSE 5

\* C22: within one resolve call the stages occur strictly in the order DNS
\* NAPTR lookup, ServiceGroup fetch, ServiceMetadata fetch, certificate
\* parse, business-card probe, each at most once; in particular no DNS
\* query is issued after the first HTTP request of the resolution.
C22_StagesInOrder ==
  /\ \A i, j \in DOMAIN net :
       i < j => StageRank(net[i].stage) <= StageRank(net[j].stage)
  /\ \A d \in DnsQueries, h \in HttpRequests : d < h

\* C24: an identifier holding a ':' is split on the first ':' only, the
\* value being the entire remainder, so that the DNS name queried is the
\* hash of exactly the identifier that is used in the SMP URLs.
C24_SplitOnFirstSeparatorOnly ==
  \A d \in DnsQueries :
    LET parsed == parseParticipantId(participantId)
    IN /\ IsSome(parsed)
       /\ net[d].target
            = QueryName(hashParticipantId(parsed[1].value, parsed[1].scheme))

\* C27: a NAPTR query that ends with NXDOMAIN or an empty answer counts as
\* zero records and resolve reports 'No SMP found via DNS lookup'; a DNS
\* timeout or any other resolver error makes resolve return 'unregistered'
\* with the DNS failure message; in both cases no HTTP request is issued.
C27_DnsAbsenceVersusFailure ==
  Done =>
    /\ FinalAnswer("dns") \in {"nxdomain", "empty"} =>
         /\ Returned
         /\ result[1].registrationStatus = "unregistered"
         /\ result[1].error = Some(<<"No SMP found via DNS lookup">>)
         /\ HttpRequests = {}
    /\ FinalAnswer("dns") = "failure" =>
         /\ Returned
         /\ ~result[1].isRegistered
         /\ result[1].registrationStatus = "unregistered"
         /\ \E code \in {"ESERVFAIL", "TIMEOUT"} :
              result[1].error
                = Some(<<"DNS NAPTR lookup failed for ">> \o net[1].target
                       \o <<": ", code>>)
         /\ HttpRequests = {}

\* the NAPTR query timed out and resolve returned the failure
C27_Witness ==
  /\ Returned
  /\ FinalAnswer("dns") = "failure"
  /\ Includes(result[1].error[1], "TIMEOUT")
  /\ options.includeBusinessCard

\* the selected endpoint carries a certificate
EndpointHasCertificate ==
  IsSome(endpointInfo.endpoint) /\ IsSome(endpointInfo.endpoint[1].certificate)

\* C28: certificateInfo is present only if parseCertificate was requested
\* and the selected endpoint carries a certificate; the parser is invoked
\* in exactly that case; and when it throws, the result keeps its status,
\* endpoint and diagnostics, has no certificateInfo and no error, and the
\* certificate cache is unchanged.
C28_CertificateParseOptionalAbsorbed ==
  Returned =>
    /\ IsSome(result[1].certificateInfo) =>
         options.parseCertificate /\ EndpointHasCertificate
    /\ (Len(calls) = 1) <=> (options.parseCertificate /\ EndpointHasCertificate)
    /\ Len(calls) <= 1
    /\ (Len(calls) = 1 /\ calls[1].info = None) =>
         /\ result[1].certificateInfo = None
         /\ result[1].error = None
         /\ result[1].isRegistered
         /\ result[1].registrationStatus = "active"
         /\ result[1].hasActiveEndpoints
         /\ result[1].endpoint
              = (IF options.fetchDocumentTypes THEN endpointInfo.endpoint ELSE None)
         /\ result[1].diagnostics = endpointInfo.diagnostics
         /\ cache = {}
    /\ (Len(calls) = 1 /\ IsSome(calls[1].info)) =>
         result[1].certificateInfo = calls[1].info

\* the endpoint carried a string that is no certificate, the parser threw,
\* and resolve returned
C28_Witness ==
  /\ Returned
  /\ Len(calls) = 1
  /\ calls[1].raw = CertBad
  /\ calls[1].info = None
  /\ result[1].registrationStatus = "active"

\* the probe of getBusinessCard was answered with a business card
CardFound == FinalAnswer("bc") = "200:card"

\* C30: getBusinessCard rejects exactly when the identifier is malformed,
\* the DNS lookup fails, or DNS yields no SMP URL (then with 'Participant
\* not registered' and without any HTTP request); in every other case it
\* resolves, with a placeholder entity named 'Unknown' that carries the
\* scheme and value of the participant when the probe finds no card.
C30_BusinessCardRejectsOrPlaceholder ==
  Done =>
    /\ (outcome = "threw") <=>
         \/ SplitRejects(participantId)
         \/ FinalAnswer("bcDns") = "failure"
         \/ FinalAnswer("bcDns") \in DnsAbsent
    /\ outcome = "threw" => HttpRequests = {}
    /\ FinalAnswer("bcDns") \in DnsAbsent =>
         result = Some(Thrown(<<"Participant not registered">>))
    /\ (outcome = "returned" /\ ~CardFound) =>
         /\ result[1].entity.name = "Unknown"
         /\ result[1].entity.identifiers
              = <<[scheme |-> parseParticipantId(participantId)[1].scheme,
                   value |-> parseParticipantId(participantId)[1].value]>>

\* C25: for every list of NAPTR records, extractSMPUrl returns either null
\* or a URL whose scheme is http or https and that has no userinfo, no
\* query and no fragment (and it never throws).
C25_ExtractedUrlIsPlain ==
  IsSome(extracted) =>
    \/ extracted[1] = None
    \/ PlainHttpUrl(extracted[1][1])

\* the record the rule of the specification selects: smallest order, then
\* smallest preference, then first in the answer; a missing number counts
\* as 0, as in the comparator
SelectedRecord(answer) ==
  CHOOSE i \in DOMAIN answer :
    /\ AdvertisesSmp(answer[i])
    /\ \A j \in DOMAIN answer : AdvertisesSmp(answer[j]) =>
         \/ OrZero(answer[i].order) < OrZero(answer[j].order)
         \/ /\ OrZero(answer[i].order) = OrZero(answer[j].order)
            /\ OrZero(answer[i].preference) < OrZero(answer[j].preference)
         \/ /\ OrZero(answer[i].order) = OrZero(answer[j].order)
            /\ OrZero(answer[i].preference) = OrZero(answer[j].preference)
            /\ i <= j

\* C26: among the records whose service is 'Meta:SMP' in any case,
\* extractSMPUrl uses the one with the smallest order, among those the
\* smallest preference, among those the first in the answer; records with
\* another service have no influence.
C26_SmallestOrderThenPreference ==
  (IsSome(extracted) /\ \E i \in DOMAIN records : AdvertisesSmp(records[i])) =>
    extracted[1] = extractSMPUrl(<<records[SelectedRecord(records)]>>)

\* the origins requested from the HTTP client so far
OriginsRequested == {Origin(net[i].target) : i \in DOMAIN net}

\* C29: until close() clears it, the pool map holds exactly one pool for
\* each origin requested since construction, also when several requests
\* for one new origin are in flight together; a request to an origin that
\* has a pool uses that pool; and no entry leaves the map before close().
C29_OnePoolPerOrigin ==
  pc \in {"idle", "closingPools"} =>
    /\ DOMAIN pools = OriginsRequested
    /\ Len(poolState) = Cardinality(OriginsRequested)
    /\ \A origin \in DOMAIN pools :
         /\ pools[origin] \in DOMAIN poolState
         /\ poolState[pools[origin]].origin = origin
    /\ \A i \in DOMAIN net : net[i].pool = pools[Origin(net[i].target)]

\* three requests in flight together, two of them (in different spelling)
\* for one origin: two pools
C29_Witness ==
  /\ pc = "idle"
  /\ Len(net) = 3
  /\ net[1].target = UrlHttps /\ net[2].target = UrlOtherHost
  /\ net[3].target = UrlUpperCase
  /\ \A i \in DOMAIN net : net[i].settled = None
  /\ net[3].pool = net[1].pool
  /\ Len(poolState) = 2

\* C21: when resolve is called with options.timeout = T, once T has
\* elapsed no further network operation of the resolution is started, the
\* in-flight one is abandoned and the call returns a result reporting the
\* cancellation; the certificate cache is left as it was.
C21_TimeoutBoundsResolution ==
  IsSome(elapsed) =>
    /\ Len(net) = elapsed[1].requests
    /\ net[Len(net)].settled = None
    /\ Len(calls) = elapsed[1].parses
    /\ cache = elapsed[1].cache
    /\ Done => Returned /\ IsSome(result[1].error)

\* a CertificateInfo without regard to which object it is
InfoValue(info) ==
  IF info = None THEN None
  ELSE Some([fingerprint |-> info[1].fingerprint, raw |-> info[1].raw])

\* the result a finished call with these arguments, document types and
\* endpoint info returns on a resolver that serves no other call
AloneResult(f) ==
  LET built == BuildResult(f.participantId, f.options, f.smpUrl[1],
                           f.endpointInfo, f.documentTypes)
      alone == IF WantsCertificate(f.options, f.endpointInfo)
               THEN CertificateParse({}, f.endpointInfo.endpoint[1].certificate[1], 1)
               ELSE [info |-> None, cache |-> {}]
  IN WithDiagnostics([built EXCEPT !.certificateInfo = InfoValue(alone.info)],
                     f.endpointInfo)

\* the call returned what it returns when run alone
AsAlone(f) ==
  (f.pc = "done" /\ f.outcome = "returned" /\ f.result[1].isRegistered) =>
    [f.result[1] EXCEPT !.certificateInfo = InfoValue(f.result[1].certificateInfo)]
      = AloneResult(f)

\* C23: for every interleaving of two resolve calls on one resolver, each
\* call returns the result it returns when run alone against the same DNS
\* and HTTP answers: participant id, SMP host, status, endpoint, diagnostics
\* and certificate information owe nothing to the other call.
C23_ConcurrentCallsIndependent ==
  AsAlone(Frame) /\ AsAlone(other)

\* the CertificateInfo objects a returned result of the call holds
InfoObjects(f) ==
  IF f.pc = "done" /\ f.outcome = "returned" /\ IsSome(f.result)
     /\ IsSome(f.result[1].certificateInfo)
  THEN {f.result[1].certificateInfo[1].object}
  ELSE {}

\* the CertificateInfo objects the resolver's certificate cache holds
CachedObjects == {c.object : c \in cache}

\* C31: the results of two resolve calls on one resolver hold no object in
\* common, certificateInfo included, and a returned result holds no object
\* that the resolver keeps in its own state.
C31_ResultsShareNoObject ==
  /\ InfoObjects(Frame) \cap InfoObjects(other) = {}
  /\ InfoObjects(Frame) \cap CachedObjects = {}
  /\ InfoObjects(other) \cap CachedObjects = {}

\* the call is over and its last request, of the stage given, was answered
\* with status 200
LastAnswered(stage) ==
  /\ pc = "done"
  /\ Arrived
  /\ net[Len(net)].stage = stage
  /\ answers[Len(answers)].kind = "response"
  /\ answers[Len(answers)].statusCode = 200

\* the ServiceMetadata document received, when it is one with a
\* ServiceInformation and a DocumentIdentifier
MetadataReceived ==
  /\ LastAnswered("sm")
  /\ answers[Len(answers)].body.root = "ServiceMetadata"
  /\ answers[Len(answers)].body.redirect = None
  /\ answers[Len(answers)].body.documentIdentifier

\* an Endpoint element that decodes: it has a transport profile and a URL
Decodes(e) ==
  IsSome(e.transportProfile) /\ (IsSome(e.endpointUri) \/ IsSome(e.address))

\* the least number of a set of numbers
Least(S) == CHOOSE i \in S : \A j \in S : i <= j

\* C32: the endpoint resolve selects is the first decoded endpoint of the
\* first decoded process of the ServiceMetadata received, whatever its
\* transport profile; when that process has no endpoint, no endpoint is
\* selected and the result is parked, whatever later processes hold.
C32_FirstEndpointOfFirstProcess ==
  MetadataReceived =>
    LET processes == answers[Len(answers)].body.processes
        decoded == {i \in DOMAIN processes : processes[i].processIdentifier}
        endpoints == processes[Least(decoded)].endpoints
        usable == {i \in DOMAIN endpoints : Decodes(endpoints[i])}
        first == endpoints[Least(usable)]
    IN IF decoded = {} \/ usable = {}
       THEN /\ endpointInfo.endpoint = None
            /\ result[1].endpoint = None
            /\ result[1].registrationStatus = "parked"
       ELSE /\ IsSome(endpointInfo.endpoint)
            /\ endpointInfo.endpoint[1].transportProfile = first.transportProfile[1]
            /\ endpointInfo.endpoint[1].url =
                 (IF IsSome(first.endpointUri) THEN first.endpointUri[1]
                  ELSE first.address[1])
            /\ endpointInfo.endpoint[1].certificate = first.certificate
            /\ IsSome(endpointInfo.endpoint[1].serviceActivationDate)
                 = IsSome(first.serviceActivationDate)
            /\ options.fetchDocumentTypes => result[1].endpoint = endpointInfo.endpoint

\* the first process has no endpoint, the second has one: parked
C32_Witness ==
  /\ MetadataReceived
  /\ LET processes == answers[Len(answers)].body.processes
     IN /\ Len(processes) = 2
        /\ processes[1].processIdentifier
        /\ processes[1].endpoints = <<>>
        /\ processes[2].processIdentifier
        /\ Len(processes[2].endpoints) > 0
        /\ Decodes(processes[2].endpoints[1])
  /\ result[1].registrationStatus = "parked"

\* the answers that are a failure of the operation: a DNS error, a
\* transport error or timeout of a GET, an HTTP error status
FailureClasses ==
  {"error", "failure", "status:404", "status:500", "redirectNoLocation"}

\* request i failed and request j, a later one, asks for the same again
IssuedAgain(i, j) ==
  /\ i < j
  /\ IsSome(net[i].settled)
  /\ net[i].settled[1] \in FailureClasses
  /\ net[j].target = net[i].target
  /\ (net[i].stage \in HttpStages) = (net[j].stage \in HttpStages)

\* C33: one resolve call requests the ServiceGroup URL and at most one
\* ServiceMetadata URL, that of the first document type, each once and once
\* more only after a redirect; no DNS query or GET that failed is issued
\* again in the same call.
C33_NoRepeatedRequests ==
  /\ \A stage \in {"sg", "sm"} :
       LET requests == RequestsOf(stage)
       IN /\ Cardinality(requests) <= 2
          /\ \A i \in requests, j \in requests :
               i < j => IsSome(net[i].settled) /\ net[i].settled[1] = "redirect"
  /\ \A i \in RequestsOf("sg") :
       i = Least(RequestsOf("sg")) => net[i].target = ServiceGroupUrl(smpUrl[1], participantId)
  /\ \A i \in RequestsOf("sm") :
       i = Least(RequestsOf("sm")) =>
         net[i].target = MetadataUrl(smpUrl[1], participantId, documentTypes[1])
  /\ \A i \in DOMAIN net, j \in DOMAIN net : ~IssuedAgain(i, j)

\* the request whose answer was the ServiceGroup document, 0 when none was
GroupRequest ==
  LET with == {i \in DOMAIN answers :
                 /\ net[i].stage = "sg"
                 /\ answers[i].kind = "response"
                 /\ answers[i].statusCode = 200
                 /\ ~parseServiceGroup(answers[i].body).threw}
  IN IF with = {} THEN 0 ELSE Least(with)

\* the hrefs of the ServiceMetadataReference elements received, in
\* document order
HrefsReceived ==
  LET refs == answers[GroupRequest].body.refs
      present == SelectSeq(refs, LAMBDA ref : IsSome(ref))
  IN [i \in DOMAIN present |-> present[i][1]]

\* the answer to request i has reached the resolver and has been dealt with
Handled(i) == i > 0 /\ (Len(net) > i \/ pc = "done")

\* C34: once a ServiceGroup that parses with n hrefs has been dealt with,
\* the resolver holds n document types, the i-th taken from the i-th href;
\* the result returned then lists n names under documentTypes when
\* fetchDocumentTypes was requested and has no documentTypes otherwise.
C34_OneDocumentTypePerHref ==
  Handled(GroupRequest) =>
    /\ Len(documentTypes) = Len(HrefsReceived)
    /\ \A i \in DOMAIN documentTypes :
         DocumentTypeOf(HrefsReceived[i]) = Some(documentTypes[i])
    /\ pc = "done" =>
         /\ outcome = "returned"
         /\ IF options.fetchDocumentTypes
            THEN /\ IsSome(result[1].documentTypes)
                 /\ Len(result[1].documentTypes[1]) = Len(HrefsReceived)
            ELSE result[1].documentTypes = None

\* the Endpoint element resolve selects from the ServiceMetadata received:
\* the first that decodes in the first process that decodes, none when
\* there is none
ElementSelected ==
  LET processes == answers[Len(answers)].body.processes
      decoded == {i \in DOMAIN processes : processes[i].processIdentifier}
      endpoints == processes[Least(decoded)].endpoints
      usable == {i \in DOMAIN endpoints : Decodes(endpoints[i])}
  IN IF decoded = {} \/ usable = {} THEN None ELSE Some(endpoints[Least(usable)])

\* the text is there and is no date
Unparseable(text) == IsSome(text) /\ text[1] # DateText

\* C35: an endpoint whose ServiceActivationDate or ServiceExpirationDate
\* text is no date is decoded all the same, and the field of that name is
\* absent from the decoded endpoint and from the result; it never holds an
\* invalid date.
C35_UnparseableDateLeavesFieldAbsent ==
  (MetadataReceived /\ IsSome(ElementSelected)) =>
    /\ IsSome(endpointInfo.endpoint)
    /\ Unparseable(ElementSelected[1].serviceActivationDate) =>
         endpointInfo.endpoint[1].serviceActivationDate = None
    /\ Unparseable(ElementSelected[1].serviceExpirationDate) =>
         endpointInfo.endpoint[1].serviceExpirationDate = None
    /\ endpointInfo.endpoint[1].serviceActivationDate # Some(InvalidDate)
    /\ endpointInfo.endpoint[1].serviceExpirationDate # Some(InvalidDate)
    /\ IsSome(result[1].endpoint) =>
         /\ result[1].endpoint[1].serviceActivationDate # Some(InvalidDate)
         /\ result[1].endpoint[1].serviceExpirationDate # Some(InvalidDate)

\* C36: the isExpired a parse call returns says whether the wall clock at
\* that call is past the certificate's notAfter, also when the value comes
\* from the cache.
C36_IsExpiredAtCallTime ==
  \A i \in DOMAIN calls :
    (calls[i].op = "parse" /\ IsSome(calls[i].info)) =>
      calls[i].info[1].isExpired = (calls[i].at > NotAfter(calls[i].raw))

\* the bits of a byte, most significant first
ByteBits(byte) == [k \in 1..8 |-> (byte \div Pow2(8 - k)) % 2]

\* the bits of a buffer, in order
RECURSIVE BufferBits(_)
BufferBits(buffer) ==
  IF buffer = <<>> THEN <<>> ELSE ByteBits(Head(buffer)) \o BufferBits(Tail(buffer))

\* RFC 4648, section 6: the bits in groups of 5, the last group filled up
\* with zero bits, each group a character of the alphabet, then '=' up to a
\* multiple of 8 characters
Rfc4648(buffer) ==
  LET stream == BufferBits(buffer)
      groups == (Len(stream) + 4) \div 5
      bit(k) == IF k <= Len(stream) THEN stream[k] ELSE 0
      char(g) == Alphabet[16 * bit(5 * g - 4) + 8 * bit(5 * g - 3) + 4 * bit(5 * g - 2)
                          + 2 * bit(5 * g - 1) + bit(5 * g) + 1]
      pad == (8 - (groups % 8)) % 8
  IN [g \in 1..groups |-> char(g)] \o [k \in 1..pad |-> "="]

\* hashParticipantId: base32.toLowerCase().replace(/=+$/, '')
LowerStripped(text) ==
  LET trailing == {k \in DOMAIN text : \A j \in k..Len(text) : text[j] = "="}
      kept == SubSeq(text, 1, Len(text) - Cardinality(trailing))
  IN [k \in DOMAIN kept |->
        LowerAlphabet[CHOOSE a \in DOMAIN Alphabet : Alphabet[a] = kept[k]]]

\* C37: base32Encode returns the RFC 4648 encoding of every buffer of up to
\* 32 bytes, its 32-bit accumulator wrapping or not; for 32 bytes the text,
\* lowercased and without '=', has 52 characters, all of a-z and 2-7.
C37_Base32IsRfc4648 ==
  encoder.phase = "done" =>
    /\ encoder.result = Rfc4648(encoder.buffer)
    /\ Len(encoder.buffer) = 32 =>
         /\ Len(LowerStripped(encoder.result)) = 52
         /\ \A k \in 1..52 :
              \E a \in DOMAIN LowerAlphabet :
                LowerStripped(encoder.result)[k] = LowerAlphabet[a]

\* a 32-byte buffer of ones has been encoded, the accumulator having lost
\* bits at the top
C37_Witness ==
  /\ encoder.phase = "done"
  /\ Len(encoder.buffer) = 32
  /\ encoder.buffer[1] = 255
  /\ encoder.value = [hi |-> 65535, lo |-> 65535]
  /\ Len(encoder.result) = 56

\* the call has been made and has not returned
Running == pc \notin {"idle", "done"}

\* C38: a resolve call whose DNS queries and GETs all settle returns in the
\* end; it makes at most 2 NAPTR lookups and at most 14 GETs: 2 for the
\* ServiceGroup, 2 for the ServiceMetadata, 10 for the business card.
C38_ResolveTerminatesBounded ==
  /\ [](/\ Cardinality(DnsQueries) <= 2
        /\ Cardinality(RequestsOf("sg")) <= 2
        /\ Cardinality(RequestsOf("sm")) <= 2
        /\ Cardinality(RequestsOf("bc")) <= 10
        /\ Cardinality(HttpRequests) <= 14)
  /\ (Running ~> (pc = "done" /\ outcome = "returned"))

\* a call that took 2 lookups and 14 GETs has returned
C38_Witness ==
  /\ pc = "done"
  /\ outcome = "returned"
  /\ Cardinality(DnsQueries) = 2
  /\ Cardinality(HttpRequests) = 14

\* the call is over and the ServiceMetadata document received was an
\* SMP-level Redirect
RedirectReceived ==
  /\ LastAnswered("sm")
  /\ answers[Len(answers)].body.root \in {"ServiceMetadata", "SignedServiceMetadata"}
  /\ IsSome(answers[Len(answers)].body.redirect)

\* C39: when the ServiceMetadata document fetched is an SMP-level Redirect,
\* the parser hands back the redirect href with no document type, resolve
\* issues no request to the redirect target, and the result is parked, has
\* no endpoint and has no diagnostics.
C39_SmpRedirectNotFollowed ==
  RedirectReceived =>
    LET body == answers[Len(answers)].body
    IN /\ parseServiceMetadata(body).redirect = body.redirect
       /\ parseServiceMetadata(body).documentTypes = <<>>
       /\ ~parseServiceMetadata(body).threw
       /\ \A i \in DOMAIN net : net[i].target # body.redirect[1]
       /\ Cardinality(RequestsOf("sm")) = 1
       /\ endpointInfo.endpoint = None
       /\ endpointInfo.diagnostics = None
       /\ outcome = "returned"
       /\ result[1].isRegistered
       /\ result[1].registrationStatus = "parked"
       /\ ~result[1].hasActiveEndpoints
       /\ result[1].endpoint = None
       /\ result[1].diagnostics = None

\* a call that asked for the document types got a Redirect document
C39_Witness ==
  /\ RedirectReceived
  /\ options.fetchDocumentTypes
  /\ answers[Len(answers)].body.redirect = Some(RedirectTarget)
  /\ result[1].registrationStatus = "parked"
  /\ Len(documentTypes) > 0

\* the class of the last answer to a request of the stage given
LastClass(stage) ==
  LET i == CHOOSE i \in RequestsOf(stage) : \A j \in RequestsOf(stage) : j <= i
  IN net[i].settled[1]

\* the call rejected with the message of getEndpointUrls
UrlsFailed ==
  /\ outcome = "threw"
  /\ IsSome(result)
  /\ Len(result[1].thrown) > 1
  /\ result[1].thrown[1] = "Failed to get endpoint URLs: "

\* answers to the ServiceGroup GET that are a response of status 200 with a
\* document that parses
ServiceGroupParsed == {"200:empty", "200:references"}

\* C40: getEndpointUrls rejects with 'Failed to get endpoint URLs: ...' for
\* an identifier that does not parse, for a DNS failure, for DNS absence, for
\* every ServiceGroup response that is not a 200 (404 included) and for a
\* ServiceGroup document that does not parse; once the ServiceMetadata GET
\* was issued the call never rejects: it resolves, and with no endpoint
\* whenever that fetch or the parse failed.
C40_EndpointUrlsRejectsOrAbsorbs ==
  pc = "done" =>
    /\ parseParticipantId(participantId) = None => UrlsFailed /\ net = <<>>
    /\ outcome = "threw" => UrlsFailed
    /\ RequestsOf("dns") # {} /\ LastClass("dns") \in DnsAbsent \cup {"failure"}
         => UrlsFailed /\ HttpRequests = {}
    /\ RequestsOf("sg") # {} /\ LastClass("sg") \notin ServiceGroupParsed
         => UrlsFailed /\ RequestsOf("sm") = {}
    /\ RequestsOf("sg") # {} /\ LastClass("sg") = "status:404"
         => Includes(result[1].thrown, Marker404)
    /\ RequestsOf("sm") # {}
         => /\ outcome = "returned"
            /\ result[1].smpHostname = UrlHostname(smpUrl[1])
            /\ LastClass("sm") # "200:metadata" => result[1].endpoint = None

\* the ServiceGroup named a document type, the GET of its metadata failed
\* or brought no metadata, and the call resolved without an endpoint
C40_Witness ==
  /\ pc = "done"
  /\ RequestsOf("sm") # {}
  /\ LastClass("sm") \in {"error", "status:500", "200:malformed", "redirectNoLocation"}
  /\ outcome = "returned"
  /\ result[1].endpoint = None

====
